---- MODULE Spec2Model ----
(***************************************************************************)
(* Paper-trading core of Trading-BOT: the multi-leg position ledger        *)
(* (core/paper_engine.py, core/position_legs.py), the risk gate            *)
(* (risk/limits.py, core/state.py), the position sizer                     *)
(* (risk/position_sizing.py), the paper broker (execution/broker.py), the  *)
(* engine step (core/engine.py), the fee model (execution/fees.py), the    *)
(* backtest metrics (backtest/metrics.py), the multi-asset orchestrator    *)
(* (core/auto_manager.py), the decision engine (core/decision_engine.py,   *)
(* core/regime.py), the live state buffer shared by the feed thread and    *)
(* the chart (charts/live_state.py) and the chart refresh that publishes   *)
(* to it (desktop_app.py).                                                 *)
(*                                                                         *)
(* Numbers.  Python floats are modelled as exact fixed-point numbers:      *)
(*   - a quantity is an integer number of lots, LotsPerUnit lots to 1.0;   *)
(*   - a price is an integer number of money units per 1.0 of quantity;    *)
(*   - an amount of money (cash, notional, fee, PnL, equity) is an integer *)
(*     number of 1/(LotsPerUnit*FeeDen) money units, so that               *)
(*     qty*price and |qty*price|*fee_rate are both exact.                  *)
(***************************************************************************)
EXTENDS Integers, Sequences, FiniteSets, TLC

\* ---------------------------------------------------------------- bounds
LotsPerUnit == 4          \* resolution of a quantity: lots per 1.0
MaxTrades == 3            \* cap on len(trades) in the ledger specification
RiskMaxTrades == 2        \* RiskConfig.max_trades of the modelled engine
MaxConcurrentLegs == 1    \* RiskConfig.max_concurrent_legs of the modelled engine

\* ------------------------------------------------------- program constants
StartingCash == 1000      \* PaperPortfolio.cash default
FeeNum == 1               \* PaperPortfolio.fee_rate default 0.001 = FeeNum/FeeDen
FeeDen == 1000
DustEps == 0              \* the 1e-12 below which a leg is dropped: less than a lot
MaxExposureNum == 1       \* AssetConfig.max_exposure_pct default 0.25
MaxExposureDen == 4
MaxDrawdownNum == 1       \* RiskConfig.max_drawdown_pct default 0.2
MaxDrawdownDen == 5
KillSwitchNum == 1        \* RiskConfig.kill_switch_loss_pct default 0.25
KillSwitchDen == 4
FixedNotional == 100      \* SizeConfig.fixed_notional default
RiskPerTradeNum == 1      \* SizeConfig.risk_per_trade_pct default 0.01
RiskPerTradeDen == 100
MinBars == 50             \* run_step skips a frame of fewer than 50 bars

\* ---------------------------------------------------------------- inputs
Symbols == {"A", "B"}
Prices == {1600, 2400}
Qtys == {1, 2}
CloseQtys == {1, 3}
Assets == <<"A", "B">>    \* EngineConfig.assets, in order
EnginePrices == {50, 100} \* the last Close of a frame
MarkPrices == {500, 750, 2400}  \* the prices a risk check marks a book at

VARIABLES
    cash,         \* PaperPortfolio.cash
    books,        \* PaperPortfolio.books: symbol -> legs (insertion order)
    trades,       \* PaperPortfolio.trades
    ret,          \* the last call made and how it returned
    last_prices,  \* EngineState.last_prices: symbol -> price
    actions,      \* the list the last run_step returned
    calc,         \* a call of a pure function: its name, inputs and result
    last_trade_time,  \* AutoManager.last_trade_time: symbol -> time
    now,          \* the time of the last tick of the orchestrator
    auto_cfg,     \* the AutoConfig the orchestrator is run with
    trade_ts,     \* Trade.ts of the trades the orchestrator made, in order
    lsb,          \* the LiveStateBuffer: its fields, its lock, the list objects
    thr,          \* the threads using the buffer: where each is in its call
    obs           \* what was observed of the buffer: snapshots returned, writes completed

vars == <<cash, books, trades, ret, last_prices, actions, calc, last_trade_time,
          now, auto_cfg, trade_ts, lsb, thr, obs>>

\* ------------------------------------------------------------ data model
Leg(side, qty, entry) == [side |-> side, qty |-> qty, entry |-> entry]

Trade(symbol, side, qty, price, fee, pnl_realized, note) ==
    [symbol |-> symbol, side |-> side, qty |-> qty, price |-> price,
     fee |-> fee, pnl_realized |-> pnl_realized, note |-> note]

Abs(x) == IF x < 0 THEN -x ELSE x
Min(a, b) == IF a <= b THEN a ELSE b

\* qty (lots) * price, in money units of the model
Notional(qty, price) == qty * price * FeeDen

\* PaperPortfolio._fee: abs(notional) * fee_rate
Fee(notional) == (Abs(notional) * FeeNum) \div FeeDen

\* PositionBook.net_qty: the loop over the legs, oldest first
RECURSIVE NetQtyLoop(_, _, _)
NetQtyLoop(legs, i, q) ==
    IF i > Len(legs) THEN q
    ELSE NetQtyLoop(legs, i + 1,
                    IF legs[i].side = "long" THEN q + legs[i].qty ELSE q - legs[i].qty)

net_qty(legs) == NetQtyLoop(legs, 1, 0)

\* PaperPortfolio.get_book: the book mapping after the call (a missing
\* symbol gets an empty book)
get_book(bks, symbol) ==
    IF symbol \in DOMAIN bks THEN bks ELSE bks @@ (symbol :> <<>>)

\* the legs of a symbol's book, as get_book(symbol).legs reads them
LegsOf(bks, symbol) == IF symbol \in DOMAIN bks THEN bks[symbol] ELSE <<>>

\* PositionBook.avg_entry: the weighted average entry of the net side's legs,
\* as the pair <<total, qty>> of the quotient total / qty (<<0, 1>> is 0.0)
RECURSIVE SideTotal(_, _, _)
SideTotal(legs, side, i) ==
    IF i > Len(legs) THEN 0
    ELSE (IF legs[i].side = side THEN legs[i].qty * legs[i].entry ELSE 0)
         + SideTotal(legs, side, i + 1)

RECURSIVE SideQty(_, _, _)
SideQty(legs, side, i) ==
    IF i > Len(legs) THEN 0
    ELSE (IF legs[i].side = side THEN legs[i].qty ELSE 0) + SideQty(legs, side, i + 1)

avg_entry(legs) ==
    LET nq == net_qty(legs)
        side == IF nq > 0 THEN "long" ELSE "short"
        total == SideTotal(legs, side, 1)
        qty == SideQty(legs, side, 1)
    IN  IF nq = 0 THEN <<0, 1>>
        ELSE IF qty # 0 THEN <<total, qty>> ELSE <<0, 1>>

\* PositionBook.legs_count
legs_count(legs) == Len(legs)

\* -------------------------------------------------------------- the ledger
\* A ledger value: the fields of PaperPortfolio that the operations change.
Ledger(c, b, t) == [cash |-> c, books |-> b, trades |-> t]

\* The outcome of a ledger call: the ledger it leaves and the error it raised
\* ("" when it returned a Trade).
Outcome(c, b, t, err) == [cash |-> c, books |-> b, trades |-> t, err |-> err]

ErrQty == "qty must be > 0"
ErrCashLong == "Not enough cash for long (incl fee)."
ErrSide == "side must be 'long' or 'short'"
ErrCloseQty == "qty_to_close must be > 0"
ErrNoPosition == "No position to close."
ErrCashShort == "Not enough cash to cover short (incl fee)."

\* open_leg's cash rule: a long pays notional + fee, a short receives
\* notional - fee (no margin model); the cash check is made for a long only
OpenCashOk_BothSides(c, side, notional, fee) == ~(c < notional + fee)

OpenCashOk(c, side, notional, fee) == ~(side = "long" /\ c < notional + fee)

OpenCash(c, side, notional, fee) ==
    IF side = "long" THEN c - (notional + fee) ELSE c + (notional - fee)

\* the Trade open_leg records
OpenTrade_ZeroPnl(symbol, side, qty, price, fee) ==
    Trade(symbol, IF side = "long" THEN "buy" ELSE "sell", qty, price, fee, 0, "OPEN")

OpenTrade(symbol, side, qty, price, fee) ==
    Trade(symbol, IF side = "long" THEN "buy" ELSE "sell", qty, price, fee, -fee, "OPEN")

\* book.legs.append(Leg(...))
AppendLeg(legs, side, qty, price) == Append(legs, Leg(side, qty, price))

\* PaperPortfolio.open_leg
OpenLeg(L, symbol, side, qty, price) ==
    LET notional == Notional(qty, price)
        fee == Fee(notional)
        bks == get_book(L.books, symbol)
        t == OpenTrade(symbol, side, qty, price, fee)
    IN  IF qty <= 0 THEN Outcome(L.cash, L.books, L.trades, ErrQty)
        ELSE IF ~OpenCashOk(L.cash, side, notional, fee)
             THEN Outcome(L.cash, L.books, L.trades, ErrCashLong)
        ELSE IF side \notin {"long", "short"}
             THEN Outcome(L.cash, L.books, L.trades, ErrSide)
        ELSE Outcome(OpenCash(L.cash, side, notional, fee),
                     [bks EXCEPT ![symbol] = AppendLeg(@, side, qty, price)],
                     Append(L.trades, t),
                     "")

\* close_qty_fifo's cash rule: closing a long receives notional - fee, closing
\* a short pays notional + fee and needs the cash for it
CloseCashOk_Off(c, direction, notional, fee) == TRUE

CloseCashOk(c, direction, notional, fee) ==
    ~(direction = "short" /\ c < notional + fee)

CloseCash_FeeSlip(c, direction, notional, fee) ==
    IF direction = "long" THEN c + (notional - fee) ELSE c - (notional - fee)

CloseCash(c, direction, notional, fee) ==
    IF direction = "long" THEN c + (notional - fee) ELSE c - (notional + fee)

\* qty = min(qty_to_close, abs(nq))
ClosedQty_NoMin(qty_to_close, nq) == qty_to_close

ClosedQty(qty_to_close, nq) == Min(qty_to_close, Abs(nq))

\* take = min(leg.qty, remaining)
FifoTake_WholeLeg(leg_qty, remaining) == leg_qty

FifoTake(leg_qty, remaining) == Min(leg_qty, remaining)

\* the realized PnL of one matched chunk
ChunkPnl(direction, price, entry, take) ==
    IF direction = "long" THEN (price - entry) * take * FeeDen
                          ELSE (entry - price) * take * FeeDen

\* The FIFO loop of close_qty_fifo over book.legs: the legs kept (new_legs)
\* and the PnL realized, before the fee
RECURSIVE FifoLoop(_, _, _, _, _, _, _)
FifoLoop(legs, i, direction, price, remaining, realized, new_legs) ==
    IF i > Len(legs) THEN [legs |-> new_legs, realized |-> realized]
    ELSE LET leg == legs[i] IN
         IF remaining <= 0
         THEN FifoLoop(legs, i + 1, direction, price, remaining, realized,
                       Append(new_legs, leg))
         ELSE IF leg.side # direction
         THEN FifoLoop(legs, i + 1, direction, price, remaining, realized,
                       Append(new_legs, leg))
         ELSE LET take == FifoTake(leg.qty, remaining)
                  pnl == ChunkPnl(direction, price, leg.entry, take)
                  left == leg.qty - take
              IN  FifoLoop(legs, i + 1, direction, price, remaining - take,
                           realized + pnl,
                           IF left > DustEps
                           THEN Append(new_legs, [leg EXCEPT !.qty = left])
                           ELSE new_legs)

\* PaperPortfolio.close_qty_fifo
CloseQtyFifo(L, symbol, qty_to_close, price) ==
    LET bks == get_book(L.books, symbol)
        nq == net_qty(bks[symbol])
        direction == IF nq > 0 THEN "long" ELSE "short"
        qty == ClosedQty(qty_to_close, nq)
        notional == Notional(qty, price)
        fee == Fee(notional)
        fifo == FifoLoop(bks[symbol], 1, direction, price, qty, 0, <<>>)
        t == Trade(symbol, IF direction = "long" THEN "sell" ELSE "buy", qty, price,
                   fee, fifo.realized - fee, "CLOSE")
    IN  IF qty_to_close <= 0 THEN Outcome(L.cash, L.books, L.trades, ErrCloseQty)
        ELSE IF nq = 0 THEN Outcome(L.cash, bks, L.trades, ErrNoPosition)
        ELSE IF ~CloseCashOk(L.cash, direction, notional, fee)
             THEN Outcome(L.cash, bks, L.trades, ErrCashShort)
        ELSE Outcome(CloseCash(L.cash, direction, notional, fee),
                     [bks EXCEPT ![symbol] = fifo.legs],
                     Append(L.trades, t),
                     "")

\* PaperPortfolio.equity(prices): prices is a function on a set of symbols
RECURSIVE EquityLoop(_, _, _, _)
EquityLoop(bks, todo, prices, eq) ==
    IF todo = {} THEN eq
    ELSE LET sym == CHOOSE s \in todo : TRUE
             nq == net_qty(bks[sym])
         IN  EquityLoop(bks, todo \ {sym}, prices,
                        IF nq # 0 /\ sym \in DOMAIN prices
                        THEN eq + Notional(nq, prices[sym]) ELSE eq)

equity(L, prices) == EquityLoop(L.books, DOMAIN L.books, prices, L.cash)

\* PaperPortfolio.realized_pnl: the sum of pnl_realized over the trades
RECURSIVE RealizedLoop(_, _)
RealizedLoop(ts, n) ==
    IF n = 0 THEN 0 ELSE RealizedLoop(ts, n - 1) + ts[n].pnl_realized

realized_pnl(L) == RealizedLoop(L.trades, Len(L.trades))

\* PaperPortfolio.unrealized_pnl(symbol, price), in money, as the pair
\* <<num, den>> of a quotient: (price - ae) * nq for a long, (ae - price) *
\* abs(nq) for a short, with ae = total / qty of the net side
unrealized_pnl_SignedQty(L, symbol, price) ==
    LET nq == net_qty(LegsOf(L.books, symbol))
        ae == avg_entry(LegsOf(L.books, symbol))
    IN  IF nq = 0 THEN <<0, 1>>
        ELSE <<(price * ae[2] - ae[1]) * Abs(nq) * FeeDen, ae[2]>>

unrealized_pnl(L, symbol, price) ==
    LET nq == net_qty(LegsOf(L.books, symbol))
        ae == avg_entry(LegsOf(L.books, symbol))
    IN  IF nq = 0 THEN <<0, 1>>
        ELSE IF nq > 0 THEN <<(price * ae[2] - ae[1]) * nq * FeeDen, ae[2]>>
        ELSE <<(ae[1] - price * ae[2]) * Abs(nq) * FeeDen, ae[2]>>

\* ------------------------------------------------- the ledger, call by call
TheLedger == Ledger(cash, books, trades)

Call(op, symbol, side, qty, price, err) ==
    [op |-> op, symbol |-> symbol, side |-> side, qty |-> qty, price |-> price,
     err |-> err]

NoCall == Call("none", "", "", 0, 0, "")

\* What callers may pass: the valid inputs and a few invalid ones.
OpenCalls ==
    (Symbols \X {"long", "short"} \X Qtys \X Prices)
    \cup ({"A"} \X {"long", "short"} \X {0} \X {1600})
    \cup ({"A"} \X {"flat"} \X {0, 1} \X {1600})

CloseCalls ==
    (Symbols \X CloseQtys \X Prices) \cup ({"A"} \X {0} \X {1600})

\* no pure function called
NoCalc == [fn |-> "none", in |-> <<>>, out |-> <<>>]

\* A PaperPortfolio as constructed: the cash, no book, no trade. The engine's
\* broker holds such a ledger (PaperBroker.portfolio).
Init ==
    /\ cash = StartingCash * LotsPerUnit * FeeDen
    /\ books = <<>>
    /\ trades = <<>>
    /\ ret = NoCall
    /\ last_prices = <<>>
    /\ actions = <<>>
    /\ calc = NoCalc
    /\ last_trade_time = <<>>
    /\ now = 0
    /\ auto_cfg = <<>>
    /\ trade_ts = <<>>
    /\ lsb = <<>>
    /\ thr = <<>>
    /\ obs = <<>>

open_leg ==
    \E c \in OpenCalls :
      \E r \in {OpenLeg(TheLedger, c[1], c[2], c[3], c[4])} :
        /\ Len(trades) < MaxTrades
        /\ cash' = r.cash
        /\ books' = r.books
        /\ trades' = r.trades
        /\ ret' = Call("open_leg", c[1], c[2], c[3], c[4], r.err)
        /\ UNCHANGED <<last_prices, actions, calc, last_trade_time, now, auto_cfg, trade_ts, lsb, thr, obs>>

close_qty_fifo ==
    \E c \in CloseCalls :
      \E r \in {CloseQtyFifo(TheLedger, c[1], c[2], c[3])} :
        /\ Len(trades) < MaxTrades
        /\ cash' = r.cash
        /\ books' = r.books
        /\ trades' = r.trades
        /\ ret' = Call("close_qty_fifo", c[1], "", c[2], c[3], r.err)
        /\ UNCHANGED <<last_prices, actions, calc, last_trade_time, now, auto_cfg, trade_ts, lsb, thr, obs>>

NextLedger == open_leg \/ close_qty_fifo

SpecLedger == Init /\ [][NextLedger]_vars

\* ------------------------------------------------------------ the risk gate
\* An optional value (None or a number): <<>> or <<v>>.
None == <<>>
Some(v) == <<v>>

\* A quotient num / den of two integers, den > 0, is the pair <<num, den>>.
Max(a, b) == IF a >= b THEN a ELSE b
RatLe(a, b) == a[1] * b[2] <= b[1] * a[2]
RatEq(a, b) == a[1] * b[2] = b[1] * a[2]
RatMax(a, b) == IF RatLe(b, a) THEN a ELSE b

\* SizeConfig: fixed_notional and risk_per_trade_pct = risk_num / risk_den
SizeConfig(fixed_notional, risk_num, risk_den) ==
    [fixed_notional |-> fixed_notional, risk_num |-> risk_num, risk_den |-> risk_den]

\* max(self.cfg.fixed_notional, 0) / price
FixedSize_NoClamp(cfg, price) == <<cfg.fixed_notional, price>>

FixedSize(cfg, price) == <<Max(cfg.fixed_notional, 0), price>>

\* PositionSizer(cfg).size_position, as a quotient: money per price
SizePosition(cfg, eq, price, stop_loss) ==
    IF price <= 0 THEN <<0, 1>>
    ELSE IF stop_loss = None \/ stop_loss = Some(price) THEN FixedSize(cfg, price)
    ELSE LET risk_amt == Max(eq * cfg.risk_num, 0)
             stop_dist == Abs(price - stop_loss[1])
         IN  IF stop_dist <= 0 THEN FixedSize(cfg, price)
             ELSE RatMax(<<risk_amt, cfg.risk_den * stop_dist>>, <<0, 1>>)

\* The sizer of the risk manager, PositionSizer() with the default SizeConfig:
\* the quantity in lots, for an equity in money units of the model. The
\* quotient is truncated to the lot.
DefaultSizeConfig ==
    SizeConfig(FixedNotional * LotsPerUnit * FeeDen, RiskPerTradeNum, RiskPerTradeDen)

size_position(eq, price, stop_loss) ==
    LET q == SizePosition(DefaultSizeConfig, eq, price, stop_loss)
    IN  q[1] \div (q[2] * FeeDen)

\* EngineState.exposure_pct, as the pair <<num, den>> of the quotient
exposure_pct(L, prices, symbol) ==
    LET price == IF symbol \in DOMAIN prices THEN prices[symbol] ELSE 0
        eq == equity(L, prices)
        qty == net_qty(LegsOf(L.books, symbol))
    IN  IF eq <= 0 \/ price <= 0 THEN <<0, 1>>
        ELSE <<Abs(Notional(qty, price)), eq>>

\* the checks of RiskManager.check_limits, in the order the code makes them
ExposureCheck(L, prices, symbol) ==
    LET e == exposure_pct(L, prices, symbol)
    IN  ~(e[1] * MaxDrawdownDen >= MaxDrawdownNum * e[2])

TradesCheck(L) == ~(Len(L.trades) >= RiskMaxTrades)

KillSwitchCheck_Off(L, prices) == TRUE

KillSwitchCheck(L, prices) ==
    ~(equity(L, prices) * KillSwitchDen <= (KillSwitchDen - KillSwitchNum) * L.cash)

LegsCheck_OffByOne(L, symbol) ==
    ~(legs_count(LegsOf(L.books, symbol)) > MaxConcurrentLegs)

LegsCheck(L, symbol) ==
    ~(legs_count(LegsOf(L.books, symbol)) >= MaxConcurrentLegs)

check_limits(L, prices, symbol, qty) ==
    /\ ~(qty <= 0)
    /\ ExposureCheck(L, prices, symbol)
    /\ TradesCheck(L)
    /\ KillSwitchCheck(L, prices)
    /\ LegsCheck(L, symbol)

\* The book mapping check_limits leaves: exposure_pct reads net_qty(symbol)
\* and the legs guard reads get_book(symbol), each through get_book.
CheckLimitsBooks(L, prices, symbol, qty) ==
    LET price == IF symbol \in DOMAIN prices THEN prices[symbol] ELSE 0
        inExposure == ~(equity(L, prices) <= 0 \/ price <= 0)
        inLegs == /\ ExposureCheck(L, prices, symbol)
                  /\ TradesCheck(L)
                  /\ KillSwitchCheck(L, prices)
    IN  IF qty <= 0 THEN L.books
        ELSE IF inExposure \/ inLegs THEN get_book(L.books, symbol)
        ELSE L.books

\* ------------------------------------------ the read methods, call by call
\* The book mapping a read method leaves. net_qty(symbol), avg_entry(symbol)
\* and unrealized_pnl(symbol, price) fetch the book through get_book;
\* equity, total_fees and realized_pnl read the fields; positions goes over
\* the books there are; exposure_pct reads net_qty(symbol) unless the equity
\* or the price is <= 0.
BookRead(bks, symbol) == get_book(bks, symbol)

ExposureBooks(L, prices, symbol) ==
    LET price == IF symbol \in DOMAIN prices THEN prices[symbol] ELSE 0
    IN  IF equity(L, prices) <= 0 \/ price <= 0 THEN L.books
        ELSE BookRead(L.books, symbol)

\* EngineState.last_prices of the state a view is taken of
ReadPrices == {<<>>, [s \in Symbols |-> 1600]}

\* a read call returned: the book mapping it leaves, cash and trades untouched
Reads(op, symbol, bks) ==
    /\ books' = bks
    /\ ret' = Call(op, symbol, "", 0, 0, "")
    /\ UNCHANGED <<cash, trades, last_prices, actions, calc, last_trade_time, now,
                   auto_cfg, trade_ts, lsb, thr, obs>>

call_net_qty == \E s \in Symbols : Reads("net_qty", s, BookRead(books, s))

call_avg_entry == \E s \in Symbols : Reads("avg_entry", s, BookRead(books, s))

call_unrealized_pnl == \E s \in Symbols : Reads("unrealized_pnl", s, BookRead(books, s))

call_equity == Reads("equity", "", books)

call_total_fees == Reads("total_fees", "", books)

call_realized_pnl == Reads("realized_pnl", "", books)

call_positions == Reads("positions", "", books)

call_exposure_pct ==
    \E s \in Symbols, prices \in ReadPrices :
        Reads("exposure_pct", s, ExposureBooks(TheLedger, prices, s))

call_check_limits ==
    \E s \in Symbols, prices \in ReadPrices, qty \in {0, 1} :
        Reads("check_limits", s, CheckLimitsBooks(TheLedger, prices, s, qty))

NextReads ==
    \/ open_leg
    \/ close_qty_fifo
    \/ call_net_qty
    \/ call_avg_entry
    \/ call_unrealized_pnl
    \/ call_equity
    \/ call_total_fees
    \/ call_realized_pnl
    \/ call_positions
    \/ call_exposure_pct
    \/ call_check_limits

SpecReads == Init /\ [][NextReads]_vars

\* --------------------------------------------------- the broker, the engine
\* PaperBroker.execute on a ledger: the outcome of the open_leg it makes, and
\* whether it returned a Fill
Execute(L, symbol, action, stop_loss, qty, price) ==
    IF action = "HOLD" \/ qty <= 0
    THEN [out |-> Outcome(L.cash, L.books, L.trades, ""), fill |-> FALSE]
    ELSE LET side == IF action = "BUY" THEN "long" ELSE "short"
             r == OpenLeg(L, symbol, side, qty, price)
         IN  [out |-> r, fill |-> r.err = ""]

\* What one asset gets in a step: no frame, or a frame of some length with a
\* last Close, and the signal the strategy makes of it (stop: the distance of
\* its stop_loss from the Close, 0 for no stop_loss).
NoFrame == [bars |-> 0, close |-> 0, action |-> "HOLD", stop |-> 0]

Frame(bars, close, action, stop) ==
    [bars |-> bars, close |-> close, action |-> action, stop |-> stop]

\* no frame; too short a frame; HOLD; BUY and SELL without a stop (fixed
\* size); with a stop 5 away (risk size); with a stop 1 away (a risk size
\* larger than the cash buys)
Frames ==
    {NoFrame, Frame(MinBars - 1, 50, "HOLD", 0), Frame(MinBars, 100, "HOLD", 0)}
    \cup [bars : {MinBars}, close : EnginePrices, action : {"BUY", "SELL"}, stop : {0}]
    \cup {Frame(MinBars, 100, "BUY", 5), Frame(MinBars, 50, "SELL", 5)}
    \cup {Frame(MinBars, 100, "BUY", 1), Frame(MinBars, 100, "SELL", 1)}

\* The first asset gets any of them, the later ones a few.
FewFrames ==
    {NoFrame, Frame(MinBars, 100, "BUY", 0), Frame(MinBars, 50, "SELL", 5)}

FrameInputs ==
    {fs \in [1..Len(Assets) -> Frames] : \A i \in 2..Len(Assets) : fs[i] \in FewFrames}

\* the stop_loss of the signal: entry -/+ the distance, None without one
SignalStop(f) ==
    IF f.action = "HOLD" \/ f.stop = 0 THEN None
    ELSE IF f.action = "BUY" THEN Some(f.close - f.stop) ELSE Some(f.close + f.stop)

\* run_step, part 1: last_prices after the frames are fetched
RECURSIVE FetchPrices(_, _, _)
FetchPrices(lp, frames, i) ==
    IF i > Len(Assets) THEN lp
    ELSE FetchPrices(IF frames[i].bars = 0 THEN lp
                     ELSE (Assets[i] :> frames[i].close) @@ lp,
                     frames, i + 1)

Blocked(symbol) == [symbol |-> symbol, text |-> "blocked by risk limits"]
Filled(symbol, action) == [symbol |-> symbol, text |-> action]

\* run_step, parts 2-4: the loop over the assets. st is the ledger with the
\* actions so far and the exception raised, if any (it ends the step).
RECURSIVE RunAssets(_, _, _, _)
RunAssets(st, prices, frames, i) ==
    IF i > Len(Assets) \/ st.err # "" THEN st
    ELSE LET symbol == Assets[i]
             f == frames[i]
             L == Ledger(st.cash, st.books, st.trades)
             qty == size_position(equity(L, prices), f.close, SignalStop(f))
             L2 == Ledger(st.cash, CheckLimitsBooks(L, prices, symbol, qty), st.trades)
             x == Execute(L2, symbol, f.action, SignalStop(f), qty, f.close)
         IN  IF f.bars < MinBars THEN RunAssets(st, prices, frames, i + 1)
             ELSE IF ~check_limits(L, prices, symbol, qty)
             THEN RunAssets([st EXCEPT !.books = L2.books,
                                       !.actions = Append(@, Blocked(symbol))],
                            prices, frames, i + 1)
             ELSE RunAssets([cash |-> x.out.cash, books |-> x.out.books,
                             trades |-> x.out.trades, err |-> x.out.err,
                             actions |-> IF x.fill
                                         THEN Append(st.actions, Filled(symbol, f.action))
                                         ELSE st.actions],
                            prices, frames, i + 1)

RunStep(frames) ==
    LET prices == FetchPrices(last_prices, frames, 1)
    IN  [prices |-> prices,
         st |-> RunAssets([cash |-> cash, books |-> books, trades |-> trades,
                           err |-> "", actions |-> <<>>],
                          prices, frames, 1)]

\* TradingEngine.run_step; an exception of the ledger ends the step and
\* nothing is returned
run_step ==
    \E frames \in FrameInputs :
      \E r \in {RunStep(frames)} :
        /\ cash' = r.st.cash
        /\ books' = r.st.books
        /\ trades' = r.st.trades
        /\ last_prices' = r.prices
        /\ actions' = (IF r.st.err = "" THEN r.st.actions ELSE <<>>)
        /\ ret' = [op |-> "run_step", frames |-> frames, err |-> r.st.err]
        /\ UNCHANGED <<calc, last_trade_time, now, auto_cfg, trade_ts, lsb, thr, obs>>

NextEngine == run_step

SpecEngine == Init /\ [][NextEngine]_vars

\* ------------------------------------------------- fee and slippage model
\* FeeModel: maker_fee, taker_fee and slippage_bps, each a quotient
FeeModel(maker_fee, taker_fee, slippage_bps) ==
    [maker_fee |-> maker_fee, taker_fee |-> taker_fee, slippage_bps |-> slippage_bps]

\* the side strings a caller may pass
SideStrings == {"buy", "BUY", "Buy", "sell", "SELL", "hold", ""}

\* str.lower on the side strings
Lower(side) ==
    CASE side \in {"buy", "BUY", "Buy"} -> "buy"
      [] side \in {"sell", "SELL"} -> "sell"
      [] OTHER -> side

\* price + slip if side.lower() == "buy" else price - slip
Slipped_AlwaysUp(price, slip, side) == <<price * slip[2] + slip[1], slip[2]>>

Slipped(price, slip, side) ==
    IF Lower(side) = "buy" THEN <<price * slip[2] + slip[1], slip[2]>>
                           ELSE <<price * slip[2] - slip[1], slip[2]>>

\* FeeModel.apply_slippage
apply_slippage(fm, price, side) ==
    IF fm.slippage_bps[1] <= 0 THEN <<price, 1>>
    ELSE Slipped(price, <<price * fm.slippage_bps[1], fm.slippage_bps[2] * 10000>>, side)

\* FeeModel.fee
FeeModelFee(fm, notional, taker) ==
    LET rate == IF taker THEN fm.taker_fee ELSE fm.maker_fee
    IN  <<Abs(notional) * rate[1], rate[2]>>

\* ------------------------------------------------------ backtest metrics
\* equity_curve_from_trades: the loop over the trades
RECURSIVE CurveLoop(_, _, _, _)
CurveLoop(ts, i, eq, curve) ==
    IF i > Len(ts) THEN curve
    ELSE CurveLoop(ts, i + 1, eq + ts[i].pnl_realized,
                   Append(curve, eq + ts[i].pnl_realized))

equity_curve_from_trades(ts, starting_cash) ==
    CurveLoop(ts, 1, starting_cash, <<starting_cash>>)

\* peak = max(peak, v), peak starting at -inf (None)
RunningPeak_Last(peak, v) == v

RunningPeak(peak, v) == IF peak = None THEN v ELSE Max(peak[1], v)

\* max_drawdown: the loop over the curve
RECURSIVE DrawdownLoop(_, _, _, _)
DrawdownLoop(curve, i, peak, max_dd) ==
    IF i > Len(curve) THEN max_dd
    ELSE LET v == curve[i]
             pk == RunningPeak(peak, v)
         IN  DrawdownLoop(curve, i + 1, Some(pk),
                          IF pk > 0 THEN RatMax(max_dd, <<pk - v, pk>>) ELSE max_dd)

max_drawdown(curve) == DrawdownLoop(curve, 1, None, <<0, 1>>)

\* ------------------------------------------- the pure functions, call by call
MaxCurveLen == 3          \* longest trade list and curve passed to the metrics

\* AutoConfig: the fields step reads. Confidences are in hundredths;
\* risk_per_trade_pct = risk_num / risk_den, pyramiding_atr = pyr_num / pyr_den.
AutoConfig(conf_entry, conf_add, max_open_assets, max_legs_per_asset, add_mode, allow_short, size_mode, fixed_notional, cooldown_sec) ==
    [conf_entry |-> conf_entry, conf_add |-> conf_add,
     max_open_assets |-> max_open_assets, max_legs_per_asset |-> max_legs_per_asset,
     add_mode |-> add_mode, allow_short |-> allow_short, size_mode |-> size_mode,
     fixed_notional |-> fixed_notional, risk_num |-> 1, risk_den |-> 100,
     cooldown_sec |-> cooldown_sec, pyr_num |-> 4, pyr_den |-> 5]

\* AutoManager._compute_qty, as a quotient: money per price
compute_qty(c, price, sl, eq) ==
    LET fixed == IF price > 0 THEN <<Max(0, c.fixed_notional), price>> ELSE <<0, 1>>
    IN  IF c.size_mode = "FIXED" THEN fixed
        ELSE IF sl = None \/ sl = Some(price) THEN fixed
        ELSE LET risk_amount == Max(0, eq * c.risk_num)
                 stop_dist == Abs(price - sl[1])
             IN  IF stop_dist <= 0 THEN fixed
                 ELSE RatMax(<<0, 1>>, <<risk_amount, c.risk_den * stop_dist>>)

CalcIn(fn, in) == [fn |-> fn, in |-> in, out |-> None]

SizerCalls ==
    {CalcIn("size_position", in) :
        in \in [cfg : {SizeConfig(100, 1, 100), SizeConfig(100, 2, 100),
                       SizeConfig(-50, 1, 100)},
                equity : {-1000, 1000, 2000},
                price : {-10, 0, 10, 20},
                stop_loss : {None, Some(10), Some(19), Some(20), Some(25)}]}

\* _compute_qty with either size mode, a fixed_notional of 50 and of -50,
\* equity 1000 and -1000, a price <= 0 and > 0, and a stop_loss null, equal to
\* the price, below and above it
ComputeQtyCalls ==
    {CalcIn("compute_qty", in) :
        in \in [cfg : {AutoConfig(70, 80, 6, 3, "PYRAMID", TRUE, m, f, 120) :
                          m \in {"FIXED", "AUTO_RISK"}, f \in {50, -50}},
                equity : {-1000, 1000},
                price : {-10, 0, 10, 20},
                sl : {None, Some(-10), Some(0), Some(10), Some(15), Some(20), Some(25)}]}

FeeModels ==
    {FeeModel(<<2, 10000>>, <<6, 10000>>, <<3, 2>>),
     FeeModel(<<1, 1000>>, <<2, 1000>>, <<10, 1>>),
     FeeModel(<<0, 1>>, <<0, 1>>, <<0, 1>>),
     FeeModel(<<1, 1000>>, <<2, 1000>>, <<-5, 1>>)}

SlippageCalls ==
    {CalcIn("apply_slippage", in) :
        in \in [fm : FeeModels, price : {1, 100, 250}, side : SideStrings]}

FeeCalls ==
    {CalcIn("fee", in) :
        in \in [fm : FeeModels, notional : {-1000, 0, 1000, 250}, taker : BOOLEAN]}

SeqsUpTo(S, n) == UNION {[1..k -> S] : k \in 0..n}

PnlTrade(pnl) == Trade("A", "buy", 1, 10, 0, pnl, "")

CurveCalls ==
    {CalcIn("equity_curve_from_trades", in) :
        in \in [trades : SeqsUpTo({PnlTrade(10), PnlTrade(-5), PnlTrade(-200)}, MaxCurveLen),
                starting_cash : {100, 50}]}

DrawdownCalls ==
    {CalcIn("max_drawdown", in) :
        in \in [curve : SeqsUpTo({-50, 0, 100, 105, 110}, MaxCurveLen)]}

\* ------------------------------------------------------ the decision engine
\* detect_regime and DecisionEngine.decide, as functions of the last values
\* of the indicators they read off the frame: the EMAs e20, e50, e200, the
\* change d50 of the EMA50 over 10 bars, the ATR, MACD m and signal s (the
\* histogram is m - s), the histogram h_prev of the bar before, the RSI and
\* the last Close. A value that is NaN is None: every comparison with it is
\* false. Levels are in 1/PriceScale of a price unit, confidences in
\* hundredths, the engine's multipliers in tenths.
PriceScale == 100
RiskAtrMultSl == 18       \* DecisionEngine.risk_atr_mult_sl default 1.8, in tenths
RewardR == 20             \* DecisionEngine.reward_r default 2.0, in tenths

Indicators(e20, e50, e200, d50, atr, m, s, h_prev, rsi, close) ==
    [e20 |-> e20, e50 |-> e50, e200 |-> e200, d50 |-> d50, atr |-> atr, m |-> m,
     s |-> s, h_prev |-> h_prev, rsi |-> rsi, close |-> close]

DecisionEngine(risk_atr_mult_sl, reward_r) ==
    [risk_atr_mult_sl |-> risk_atr_mult_sl, reward_r |-> reward_r]

TradeDecision(action, entry, stop_loss, take_profit, confidence, regime) ==
    [action |-> action, entry |-> entry, stop_loss |-> stop_loss,
     take_profit |-> take_profit, confidence |-> confidence, regime |-> regime]

\* abs(x / (a + 1e-9)) > num/den and < num/den, for integers x and a >= 0
RatioAbove(x, a, num, den) == Abs(x) * den > num * a
RatioBelow(x, a, num, den) == Abs(x) * den <= num * a

\* x > c and x < c for an x that may be NaN
Gt(x, c) == x # None /\ x[1] > c
Lt(x, c) == x # None /\ x[1] < c

detect_regime(ind) ==
    IF ind.atr = None THEN "CHOP"
    ELSE LET a == ind.atr[1]
             bias == ind.e20 - ind.e50
         IN  IF RatioAbove(ind.d50, a, 8, 10) /\ RatioAbove(bias, a, 4, 10) THEN "TREND"
             ELSE IF a > 0 /\ RatioBelow(ind.d50, a, 35, 100) /\ RatioBelow(bias, a, 25, 100)
             THEN "RANGE"
             ELSE "CHOP"

\* rsi_last > 45 in the bullish TREND rule
RsiSupportsUp_50(rsi_last) == Gt(rsi_last, 50)

RsiSupportsUp(rsi_last) == Gt(rsi_last, 45)

\* the rules of a regime: the action and what is added to the confidence
\* after the regime's own share
TrendRule_Strong(ind, rsi_last) ==
    LET h == ind.m - ind.s
        trend_up == ind.e20 > ind.e50 /\ ind.e50 > ind.e200
        trend_dn == ind.e20 < ind.e50 /\ ind.e50 < ind.e200
        macd_up == ind.m > ind.s /\ h > 0
        macd_dn == ind.m < ind.s /\ h < 0
    IN  IF trend_up /\ macd_up /\ RsiSupportsUp(rsi_last) THEN <<"BUY", 15 + 30>>
        ELSE IF trend_dn /\ macd_dn /\ Lt(rsi_last, 55) THEN <<"SELL", 15 + 30>>
        ELSE <<"HOLD", 15 - 5>>

TrendRule(ind, rsi_last) ==
    LET h == ind.m - ind.s
        trend_up == ind.e20 > ind.e50 /\ ind.e50 > ind.e200
        trend_dn == ind.e20 < ind.e50 /\ ind.e50 < ind.e200
        macd_up == ind.m > ind.s /\ h > 0
        macd_dn == ind.m < ind.s /\ h < 0
    IN  IF trend_up /\ macd_up /\ RsiSupportsUp(rsi_last) THEN <<"BUY", 15 + 25>>
        ELSE IF trend_dn /\ macd_dn /\ Lt(rsi_last, 55) THEN <<"SELL", 15 + 25>>
        ELSE <<"HOLD", 15 - 5>>

RangeRule(ind, rsi_last) ==
    LET h == ind.m - ind.s
    IN  IF Lt(rsi_last, 32) /\ h > ind.h_prev THEN <<"BUY", 10 + 20>>
        ELSE IF Gt(rsi_last, 68) /\ h < ind.h_prev THEN <<"SELL", 10 + 20>>
        ELSE <<"HOLD", 10 - 5>>

ChopRule_AsTrend(ind, rsi_last) == TrendRule(ind, rsi_last)

ChopRule(ind, rsi_last) == <<"HOLD", -15>>

\* sl for a BUY
BuyStop_Above(entry, dist) == entry + dist

BuyStop(entry, dist) == entry - dist

\* DecisionEngine.decide
decide(eng, ind) ==
    LET regime == detect_regime(ind)
        rule == IF regime = "TREND" THEN TrendRule(ind, ind.rsi)
                ELSE IF regime = "RANGE" THEN RangeRule(ind, ind.rsi)
                ELSE ChopRule(ind, ind.rsi)
        action == rule[1]
        confidence == Max(0, Min(100, 35 + rule[2]))
        entry == IF action \in {"BUY", "SELL"} THEN Some(ind.close * PriceScale) ELSE None
        dist == (eng.risk_atr_mult_sl * ind.atr[1] * PriceScale) \div 10
        sl == IF action = "BUY" THEN BuyStop(entry[1], dist) ELSE entry[1] + dist
        tp == IF action = "BUY" THEN entry[1] + (eng.reward_r * (entry[1] - sl)) \div 10
              ELSE entry[1] - (eng.reward_r * (sl - entry[1])) \div 10
    IN  IF entry # None /\ Gt(ind.atr, 0)
        THEN TradeDecision(action, entry, Some(sl), Some(tp), confidence, regime)
        ELSE TradeDecision(action, entry, None, None, confidence, regime)

\* the frames a decision is made of and the engines that make it
EmaTriples == {<<3, 2, 1>>, <<4, 2, 1>>, <<1, 2, 3>>, <<2, 2, 2>>, <<3, 2, 3>>, <<2, 3, 1>>}
MacdPairs == {<<1, 0>>, <<0, 1>>, <<0, 0>>, <<-1, -2>>}

DecideCalls ==
    {CalcIn("decide", [eng |-> eng,
                       ind |-> Indicators(e[1], e[2], e[3], d50, atr, ms[1], ms[2], hp,
                                          rsi, 100)]) :
        eng \in {DecisionEngine(RiskAtrMultSl, RewardR), DecisionEngine(5, 10)},
        e \in EmaTriples, d50 \in {-4, -1, 0, 1, 4},
        atr \in {None, Some(0), Some(1), Some(4), Some(5)},
        ms \in MacdPairs, hp \in {-2, 0, 2},
        rsi \in {None, Some(20), Some(32), Some(45), Some(50), Some(55), Some(68), Some(80)}}

\* the inputs of one call, drawn before it is made
InitCalc ==
    /\ cash = StartingCash * LotsPerUnit * FeeDen
    /\ books = <<>>
    /\ trades = <<>>
    /\ ret = NoCall
    /\ last_prices = <<>>
    /\ actions = <<>>
    /\ last_trade_time = <<>>
    /\ now = 0
    /\ auto_cfg = <<>>
    /\ trade_ts = <<>>
    /\ lsb = <<>>
    /\ thr = <<>>
    /\ obs = <<>>
    /\ \/ calc \in SizerCalls
       \/ calc \in SlippageCalls
       \/ calc \in FeeCalls
       \/ calc \in CurveCalls
       \/ calc \in DrawdownCalls
       \/ calc \in DecideCalls
       \/ calc \in ComputeQtyCalls

Returns(fn, out) ==
    /\ calc.fn = fn
    /\ calc.out = None
    /\ calc' = [calc EXCEPT !.out = Some(out)]
    /\ UNCHANGED <<cash, books, trades, ret, last_prices, actions, last_trade_time,
                   now, auto_cfg, trade_ts, lsb, thr, obs>>

call_size_position ==
    Returns("size_position",
            SizePosition(calc.in.cfg, calc.in.equity, calc.in.price, calc.in.stop_loss))

call_apply_slippage ==
    Returns("apply_slippage", apply_slippage(calc.in.fm, calc.in.price, calc.in.side))

call_fee ==
    Returns("fee", FeeModelFee(calc.in.fm, calc.in.notional, calc.in.taker))

call_equity_curve_from_trades ==
    Returns("equity_curve_from_trades",
            equity_curve_from_trades(calc.in.trades, calc.in.starting_cash))

call_max_drawdown ==
    Returns("max_drawdown", max_drawdown(calc.in.curve))

call_decide ==
    Returns("decide", decide(calc.in.eng, calc.in.ind))

call_compute_qty ==
    Returns("compute_qty",
            compute_qty(calc.in.cfg, calc.in.price, calc.in.sl, calc.in.equity))

NextCalc ==
    \/ call_size_position
    \/ call_apply_slippage
    \/ call_fee
    \/ call_equity_curve_from_trades
    \/ call_max_drawdown
    \/ call_decide
    \/ call_compute_qty

SpecCalc == InitCalc /\ [][NextCalc]_vars

\* --------------------------------------------------------- the orchestrator
\* In the specification of the orchestrator a quantity is an integer number of
\* sub-lots, SubLot to the lot, so that half of a position and 60% of a size
\* are exact; a size the sizer computes is truncated to the lot.
HalvingDepth == 2         \* how many times a position can be halved exactly
MaxAutoTrades == 2        \* cap on len(trades) in the orchestrator specification
MaxTime == 2              \* cap on the time of a tick

SubLot == 5 * 2^HalvingDepth
AutoLotsPerUnit == LotsPerUnit * SubLot
MoneyScale == AutoLotsPerUnit * FeeDen

MinAutoBars == 120        \* step skips a frame of fewer than 120 bars

\* TradeDecision: the fields step reads; stop is the distance of stop_loss
\* from the price (0: no stop_loss)
Decision(action, confidence, stop, regime) ==
    [action |-> action, confidence |-> confidence, stop |-> stop, regime |-> regime]

\* What ohlc_by_symbol holds for a symbol - len 0: None or an empty frame -
\* with the ATR of the frame and the decision the engine makes of it
Bar(len, close, atr, d) == [len |-> len, close |-> close, atr |-> atr, d |-> d]

NoBar == Bar(0, 0, 0, Decision("HOLD", 35, 0, "CHOP"))

DecisionStop(d, price) ==
    IF d.action = "HOLD" \/ d.stop = 0 THEN None
    ELSE IF d.action = "BUY" THEN Some(price - d.stop) ELSE Some(price + d.stop)

\* AutoManager._cooldown_ok
cooldown_ok_Off(ltt, symbol, tnow, cooldown_sec) == TRUE

cooldown_ok(ltt, symbol, tnow, cooldown_sec) ==
    IF symbol \notin DOMAIN ltt THEN TRUE
    ELSE tnow - ltt[symbol] >= cooldown_sec

\* AutoManager._position_count
position_count(bks) == Cardinality({s \in DOMAIN bks : Abs(net_qty(bks[s])) > 0})

\* the quantity in sub-lots of a quotient of model money per price
ToQty(q) == (q[1] \div (q[2] * FeeDen * SubLot)) * SubLot

\* abs(nq) * 0.50
HalfOf_All(nq) == Abs(nq)

HalfOf(nq) == Abs(nq) \div 2

\* the prices step builds for the equity: the last Close of every frame given
AutoPrices(data) ==
    [s \in {x \in DOMAIN data : data[x].len > 0} |-> data[s].close]

Log(symbol, text) == [symbol |-> symbol, text |-> text]

\* After a ledger call of step: an exception ends the tick; otherwise the
\* symbol's last trade time is set and a log line appended; an entry counts
\* in open_assets (capped: a flat instrument was refused at the cap).
Done_NoCount(st, out, symbol, tnow, text, entered) ==
    IF out.err # "" THEN [st EXCEPT !.books = out.books, !.err = out.err]
    ELSE [st EXCEPT !.cash = out.cash, !.books = out.books, !.trades = out.trades,
                    !.ltt = (symbol :> tnow) @@ @,
                    !.logs = Append(@, Log(symbol, text))]

Done(st, out, symbol, tnow, text, entered) ==
    IF out.err # "" THEN [st EXCEPT !.books = out.books, !.err = out.err]
    ELSE [st EXCEPT !.cash = out.cash, !.books = out.books, !.trades = out.trades,
                    !.ltt = (symbol :> tnow) @@ @,
                    !.logs = Append(@, Log(symbol, text)),
                    !.open_assets = IF entered THEN @ + 1 ELSE @]

\* what step does with a decision on an open position: nothing on HOLD, a
\* scale-out on the opposite action, else the add logic
ExitRule_NoHold(direction, action) ==
    IF (direction = "long" /\ action # "BUY") \/ (direction = "short" /\ action # "SELL")
    THEN "scale_out" ELSE "add"

ExitRule(direction, action) ==
    IF action = "HOLD" THEN "none"
    ELSE IF (direction = "long" /\ action = "SELL")
            \/ (direction = "short" /\ action = "BUY")
    THEN "scale_out" ELSE "add"

\* moved_ok: the gain per unit, as the quotient gain / den, is at least
\* pyramiding_atr * ATR
PyramidMoved_Any(gain, den, c, a) == TRUE

PyramidMoved(gain, den, c, a) == gain * c.pyr_den >= c.pyr_num * a * den

\* qty * 0.6
Part60_Full(qty) == qty

Part60(qty) == (qty * 3) \div 5

\* cap legs: no add at legs_count >= max_legs_per_asset
LegsCapReached_Above(n, c) == n > c.max_legs_per_asset

LegsCapReached(n, c) == n >= c.max_legs_per_asset

\* step, part 1 of the loop body: an open position (exits first, then adds)
ManagePosition(st, c, symbol, bar, tnow, eq) ==
    LET price == bar.close
        a == bar.atr
        d == bar.d
        L == Ledger(st.cash, st.books, st.trades)
        legs == st.books[symbol]
        nq == net_qty(legs)
        direction == IF nq > 0 THEN "long" ELSE "short"
        qty == ToQty(compute_qty([c EXCEPT !.fixed_notional = @ * MoneyScale],
                                 price, DecisionStop(d, price), eq))
        avg == avg_entry(legs)
        moved_long == PyramidMoved(price * avg[2] - avg[1], avg[2], c, a)
        moved_short == PyramidMoved(avg[1] - price * avg[2], avg[2], c, a)
        want == d.confidence >= c.conf_add
        qty60 == Part60(qty)
        rule == ExitRule(direction, d.action)
    IN  IF rule = "none" THEN st
        ELSE IF rule = "scale_out"
        THEN IF Abs(nq) % 2 # 0 THEN [st EXCEPT !.inexact = TRUE]
             ELSE Done(st, CloseQtyFifo(L, symbol, HalfOf(nq), price), symbol, tnow,
                       "SCALE-OUT", FALSE)
        ELSE IF c.add_mode = "OFF" THEN st
        ELSE IF LegsCapReached(legs_count(legs), c) THEN st
        ELSE IF c.add_mode = "PYRAMID"
        THEN IF a <= 0 THEN st
             ELSE IF direction = "long"
             THEN IF moved_long /\ d.action = "BUY" /\ want /\ qty > 0
                  THEN Done(st, OpenLeg(L, symbol, "long", qty, price), symbol, tnow,
                            "PYRAMID ADD LONG", FALSE)
                  ELSE st
             ELSE IF moved_short /\ d.action = "SELL" /\ want /\ c.allow_short /\ qty > 0
                  THEN Done(st, OpenLeg(L, symbol, "short", qty, price), symbol, tnow,
                            "PYRAMID ADD SHORT", FALSE)
                  ELSE st
        ELSE IF c.add_mode = "MEANREV"
        THEN IF d.regime # "RANGE" THEN st
             ELSE IF direction = "long"
             THEN IF d.action = "BUY" /\ want /\ qty60 > 0
                  THEN Done(st, OpenLeg(L, symbol, "long", qty60, price), symbol, tnow,
                            "MEANREV ADD LONG", FALSE)
                  ELSE st
             ELSE IF d.action = "SELL" /\ want /\ c.allow_short /\ qty60 > 0
                  THEN Done(st, OpenLeg(L, symbol, "short", qty60, price), symbol, tnow,
                            "MEANREV ADD SHORT", FALSE)
                  ELSE st
        ELSE st

\* the side of an entry: BUY opens a long, SELL a short if shorting is allowed
EntrySide_ShortAlways(action, allow_short) ==
    IF action = "BUY" THEN "long" ELSE IF action = "SELL" THEN "short" ELSE "none"

EntrySide(action, allow_short) ==
    IF action = "BUY" THEN "long"
    ELSE IF action = "SELL" /\ allow_short THEN "short" ELSE "none"

\* step, part 2 of the loop body: no position, an entry is considered
ConsiderEntry(st, c, symbol, bar, tnow, eq) ==
    LET price == bar.close
        d == bar.d
        side == EntrySide(d.action, c.allow_short)
        L == Ledger(st.cash, st.books, st.trades)
        qty == ToQty(compute_qty([c EXCEPT !.fixed_notional = @ * MoneyScale],
                                 price, DecisionStop(d, price), eq))
    IN  IF st.open_assets >= c.max_open_assets THEN [st EXCEPT !.capped = TRUE]
        ELSE IF d.action = "HOLD" THEN st
        ELSE IF d.confidence < c.conf_entry THEN st
        ELSE IF side = "none" THEN st
        ELSE IF qty > 0
        THEN Done(st, OpenLeg(L, symbol, side, qty, price), symbol, tnow,
                  IF side = "long" THEN "ENTRY LONG" ELSE "ENTRY SHORT", TRUE)
        ELSE st

\* if direction != "flat"
HasPosition_Never(nq) == FALSE

HasPosition(nq) == nq # 0

\* the body of step's loop for one entry of the watchlist; net_qty(symbol)
\* goes through get_book
StepSymbol(st, c, symbol, data, tnow, eq) ==
    LET bar == IF symbol \in DOMAIN data THEN data[symbol] ELSE NoBar
        st1 == [st EXCEPT !.books = get_book(@, symbol)]
        nq == net_qty(st1.books[symbol])
    IN  IF bar.len < MinAutoBars THEN st
        ELSE IF ~cooldown_ok(st.ltt, symbol, tnow, c.cooldown_sec) THEN st1
        ELSE IF HasPosition(nq) THEN ManagePosition(st1, c, symbol, bar, tnow, eq)
        ELSE ConsiderEntry(st1, c, symbol, bar, tnow, eq)

\* the loop over the watchlist; an exception of the ledger ends it
RECURSIVE StepLoop(_, _, _, _, _, _, _)
StepLoop(st, c, watchlist, data, tnow, eq, i) ==
    IF i > Len(watchlist) \/ st.err # "" \/ st.inexact THEN st
    ELSE StepLoop(StepSymbol(st, c, watchlist[i], data, tnow, eq),
                  c, watchlist, data, tnow, eq, i + 1)

\* AutoManager.step on the ledger L with the last trade times ltt
Step(L, ltt, c, watchlist, data, tnow) ==
    StepLoop([cash |-> L.cash, books |-> L.books, trades |-> L.trades, ltt |-> ltt,
              logs |-> <<>>, open_assets |-> position_count(L.books),
              err |-> "", inexact |-> FALSE, capped |-> FALSE],
             c, watchlist, data, tnow, equity(L, AutoPrices(data)), 1)

\* The configurations the orchestrator is run with: PYRAMID adds with fixed
\* sizes and a cooldown; MEANREV adds with risk sizes and no cooldown; no adds
\* and no shorts.
AutoConfigs ==
    {AutoConfig(70, 75, 2, 2, "PYRAMID", TRUE, "FIXED", 50, 2),
     AutoConfig(60, 65, 2, 2, "MEANREV", TRUE, "AUTO_RISK", 50, 0),
     AutoConfig(70, 80, 1, 3, "OFF", FALSE, "FIXED", 50, 2)}

TrendDecision(action) == Decision(action, 75, 0, "TREND")
RangeDecision(action) == Decision(action, 65, 0, "RANGE")

\* What a tick may hold for the first symbol: nothing; too short a frame;
\* HOLD; BUY and SELL in TREND at either price; in RANGE; without ATR; with a
\* stop_loss 1 away (under AUTO_RISK a size larger than the cash buys)
Bars ==
    {NoBar, Bar(MinAutoBars - 1, 50, 10, TrendDecision("BUY")),
     Bar(MinAutoBars, 100, 10, Decision("HOLD", 45, 0, "CHOP"))}
    \cup {Bar(MinAutoBars, p, 10, TrendDecision(a)) : p \in {50, 100}, a \in {"BUY", "SELL"}}
    \cup {Bar(MinAutoBars, 50, 10, RangeDecision("BUY")), Bar(MinAutoBars, 50, 10, RangeDecision("SELL"))}
    \cup {Bar(MinAutoBars, 100, 0, TrendDecision("BUY")),
          Bar(MinAutoBars, 100, 10, Decision("BUY", 75, 1, "TREND"))}

\* and for the second symbol
FewBars ==
    {NoBar, Bar(MinAutoBars, 100, 10, Decision("BUY", 75, 1, "TREND")),
     Bar(MinAutoBars, 50, 10, TrendDecision("SELL"))}

Watchlists == {<<"A", "B">>, <<"B", "A">>, <<"A", "A">>}

\* the arguments of a tick: the watchlist, the frames, the time since the
\* last tick (tick times do not decrease)
TickInputs ==
    [watchlist : Watchlists,
     data : {f \in [Symbols -> Bars] : f["B"] \in FewBars},
     dt : 0..2]

\* an AutoManager on a new PaperPortfolio
InitAuto ==
    /\ cash = StartingCash * MoneyScale
    /\ books = <<>>
    /\ trades = <<>>
    /\ ret = NoCall
    /\ last_prices = <<>>
    /\ actions = <<>>
    /\ calc = NoCalc
    /\ last_trade_time = <<>>
    /\ now = 0
    /\ auto_cfg \in AutoConfigs
    /\ trade_ts = <<>>
    /\ lsb = <<>>
    /\ thr = <<>>
    /\ obs = <<>>

\* AutoManager.step; an exception of the ledger ends the tick, with what the
\* tick did before it kept, and no list is returned
step ==
    \E inp \in TickInputs :
      /\ Len(trades) < MaxAutoTrades
      /\ now + inp.dt <= MaxTime
      /\ \E r \in {Step(TheLedger, last_trade_time, auto_cfg, inp.watchlist, inp.data,
                        now + inp.dt)} :
            /\ ~r.inexact
            /\ cash' = r.cash
            /\ books' = r.books
            /\ trades' = r.trades
            /\ last_trade_time' = r.ltt
            /\ now' = now + inp.dt
            /\ trade_ts' = trade_ts \o [k \in 1..(Len(r.trades) - Len(trades)) |-> now + inp.dt]
            /\ ret' = [op |-> "step", logs |-> IF r.err = "" THEN r.logs ELSE <<>>,
                       err |-> r.err, capped |-> r.capped]
            /\ UNCHANGED <<last_prices, actions, calc, auto_cfg, lsb, thr, obs>>

NextAuto == step

SpecAuto == InitAuto /\ [][NextAuto]_vars

\* the orchestrator run with a configuration that adds legs
InitAdds == InitAuto /\ auto_cfg.add_mode # "OFF"

SpecAdds == InitAdds /\ [][NextAuto]_vars

\* ------------------------------- the orchestrator with its decision engine
\* step with the decision made by DecisionEngine.decide (line 124) of the
\* indicators of each frame, under the default AutoConfig. Times are in
\* seconds: a tick comes at once or a cooldown later.
DefaultCooldown == 120    \* AutoConfig.cooldown_sec default

DefaultConfigs ==
    {AutoConfig(70, 80, 6, 3, m, TRUE, "FIXED", 50, DefaultCooldown) :
        m \in {"PYRAMID", "MEANREV"}}

\* the TradeDecision as step reads it: the stop as a distance in price units
ToDecision(td) ==
    Decision(td.action, td.confidence,
             IF td.stop_loss = None THEN 0
             ELSE Abs(td.stop_loss[1] - td.entry[1]) \div PriceScale,
             td.regime)

\* a frame of len bars with the indicators ind: what step reads of it
FrameBar(len, ind) ==
    Bar(len, ind.close, IF ind.atr = None THEN 0 ELSE ind.atr[1],
        ToDecision(decide(DecisionEngine(RiskAtrMultSl, RewardR), ind)))

\* Frames at either price with ATR 10: an up trend confirmed (BUY) and not
\* (RSI 40: HOLD), a down trend confirmed (SELL), a range oversold (BUY),
\* overbought (SELL) and mid-range (HOLD); a frame without ATR (CHOP); none.
TrendFrames ==
    {FrameBar(MinAutoBars, Indicators(110, 100, 90, 20, Some(10), 1, 0, 0, Some(50), p)) :
        p \in {50, 100}}
    \cup {FrameBar(MinAutoBars, Indicators(90, 100, 110, -20, Some(10), -1, 0, 0, Some(50), p)) :
             p \in {50, 100}}

RangeFrames ==
    {FrameBar(MinAutoBars, Indicators(100, 100, 100, 0, Some(10), x[1], 0, 0, x[2], p)) :
        x \in {<<1, Some(20)>>, <<-1, Some(80)>>}, p \in {50, 100}}

QuietFrames ==
    {NoBar,
     FrameBar(MinAutoBars, Indicators(110, 100, 90, 20, Some(10), 1, 0, 0, Some(40), 100)),
     FrameBar(MinAutoBars, Indicators(100, 100, 100, 0, Some(10), 1, 0, 0, Some(50), 100)),
     FrameBar(MinAutoBars, Indicators(110, 100, 90, 20, None, 1, 0, 0, Some(50), 100))}

\* and for the second symbol
FewDefaultFrames ==
    {NoBar,
     FrameBar(MinAutoBars, Indicators(110, 100, 90, 20, Some(10), 1, 0, 0, Some(50), 100)),
     FrameBar(MinAutoBars, Indicators(90, 100, 110, -20, Some(10), -1, 0, 0, Some(50), 50))}

DefaultFrames == TrendFrames \cup RangeFrames \cup QuietFrames

DefaultInputs ==
    [watchlist : Watchlists,
     data : {f \in [Symbols -> DefaultFrames] : f["B"] \in FewDefaultFrames},
     dt : {0, DefaultCooldown}]

\* an AutoManager with a DecisionEngine() on a new PaperPortfolio, run with
\* the default AutoConfig
InitDefault ==
    /\ cash = StartingCash * MoneyScale
    /\ books = <<>>
    /\ trades = <<>>
    /\ ret = NoCall
    /\ last_prices = <<>>
    /\ actions = <<>>
    /\ calc = NoCalc
    /\ last_trade_time = <<>>
    /\ now = 0
    /\ auto_cfg \in DefaultConfigs
    /\ trade_ts = <<>>
    /\ lsb = <<>>
    /\ thr = <<>>
    /\ obs = <<>>

\* AutoManager.step, the decisions made by the engine
step_decide ==
    \E inp \in DefaultInputs :
      /\ Len(trades) < MaxAutoTrades
      /\ now + inp.dt <= MaxTime * DefaultCooldown
      /\ \E r \in {Step(TheLedger, last_trade_time, auto_cfg, inp.watchlist, inp.data,
                        now + inp.dt)} :
            /\ ~r.inexact
            /\ cash' = r.cash
            /\ books' = r.books
            /\ trades' = r.trades
            /\ last_trade_time' = r.ltt
            /\ now' = now + inp.dt
            /\ trade_ts' = trade_ts \o [k \in 1..(Len(r.trades) - Len(trades)) |-> now + inp.dt]
            /\ ret' = [op |-> "step", logs |-> IF r.err = "" THEN r.logs ELSE <<>>,
                       err |-> r.err, capped |-> r.capped]
            /\ UNCHANGED <<last_prices, actions, calc, auto_cfg, lsb, thr, obs>>

NextDefault == step_decide

SpecDefault == InitDefault /\ [][NextDefault]_vars

\* ---------------------------------------------------- the live state buffer
\* LiveStateBuffer (charts/live_state.py) used by producer threads and one
\* reader thread. A frame is the sequence of its Close values; a marker is the
\* serial number it was made with. A list object is an identity in lsb.lists,
\* so that a change in place and a new list differ, and a copy has an
\* identity of its own; the identity of a frame object is kept with its value.
MarkerCap == 2            \* the 300 of self._markers[-300:]
MaxWrites == 3            \* cap on the calls the producers make

Producers == {"P1", "P2"}
Reader == "R"
BufferFrames == {<<>>, <<10>>, <<10, 20>>}
ObjIds == 1..8

\* how many markers one extend_markers call brings
ExtendLens == {0, MarkerCap + 1}

ledger_vars == <<cash, books, trades, ret, last_prices, actions, calc,
                 last_trade_time, now, auto_cfg, trade_ts>>

\* seq[-n:]
LastN_FirstN(seq, n) == SubSeq(seq, 1, Min(n, Len(seq)))

LastN(seq, n) == SubSeq(seq, Max(1, Len(seq) - n + 1), Len(seq))

\* with self._lock: the lock can be taken when no thread holds it
LockFree_Always(lock) == TRUE

LockFree(lock) == lock = "free"

\* list(self._markers): the identity of the list snapshot returns
CopiedList_Alias(own, fresh) == own

CopiedList(own, fresh) == fresh

\* what the buffer holds, as values
Abstract(b) ==
    [df |-> b.df.val, markers |-> b.lists[b.markers], last_price |-> b.last_price]

\* a thread at a statement pc of a method, with the method's argument - for
\* the reader: the identities of the copies made so far - and what it has read
At(pc, arg, got) == [pc |-> pc, arg |-> arg, got |-> got]

Idle == At("idle", <<>>, <<>>)

\* the identities in use: the buffer's, the reader's
LiveIds(b, t, o) ==
    {b.df.id, b.markers}
    \cup UNION {{o.snaps[k].df.id, o.snaps[k].markers.id} : k \in 1..Len(o.snaps)}
    \cup {t[Reader].arg[k] : k \in 1..Len(t[Reader].arg)}

\* a new object: the least identity not in use
Fresh(b, t, o) ==
    CHOOSE i \in ObjIds :
        /\ i \notin LiveIds(b, t, o)
        /\ \A j \in 1..(i - 1) : j \in LiveIds(b, t, o)

\* the next state, with the lists no longer referred to dropped
Becomes(b, t, o) ==
    /\ lsb' = [b EXCEPT !.lists = [i \in (DOMAIN @) \cap LiveIds(b, t, o) |-> @[i]]]
    /\ thr' = t
    /\ obs' = o
    /\ UNCHANGED ledger_vars

\* LiveStateBuffer.__init__, no call made
InitBuffer ==
    /\ cash = StartingCash * LotsPerUnit * FeeDen
    /\ books = <<>>
    /\ trades = <<>>
    /\ ret = NoCall
    /\ last_prices = <<>>
    /\ actions = <<>>
    /\ calc = NoCalc
    /\ last_trade_time = <<>>
    /\ now = 0
    /\ auto_cfg = <<>>
    /\ trade_ts = <<>>
    /\ lsb = [df |-> [id |-> 1, val |-> <<>>], markers |-> 2, last_price |-> None,
              lock |-> "free", lists |-> (2 :> <<>>)]
    /\ thr = [t \in Producers \cup {Reader} |-> Idle]
    /\ obs = [snaps |-> <<>>,
              committed |-> [df |-> <<>>, markers |-> <<>>, last_price |-> None],
              window |-> {}, added |-> <<>>, quiet |-> FALSE, writes |-> 0, made |-> 0]

\* a producer enters a method: it takes the lock
Enter(th, pc, arg, made) ==
    /\ thr[th].pc = "idle"
    /\ LockFree(lsb.lock)
    /\ obs.writes < MaxWrites
    /\ Becomes([lsb EXCEPT !.lock = th],
               [thr EXCEPT ![th] = At(pc, arg, <<>>)],
               [obs EXCEPT !.writes = @ + 1, !.quiet = FALSE, !.made = @ + made])

\* the last statement of a producer's method, b the buffer after it: the lock
\* is released and the call is complete
Leave(th, b, o) ==
    LET b2 == [b EXCEPT !.lock = "free"]
    IN  Becomes(b2, [thr EXCEPT ![th] = Idle],
                [o EXCEPT !.committed = Abstract(b2),
                          !.window = IF thr[Reader].pc = "idle" THEN @
                                     ELSE @ \cup {Abstract(b2)}])

\* self._markers = self._markers[-300:]
Sliced(b, new) ==
    [b EXCEPT !.markers = new,
              !.lists = (new :> LastN(b.lists[b.markers], MarkerCap)) @@ @]

push_frame ==
    \E th \in Producers, df \in BufferFrames : Enter(th, "pf_df", df, 0)

\* self._df = df.copy()
push_frame_df ==
    \E th \in Producers :
      /\ thr[th].pc = "pf_df"
      /\ Becomes([lsb EXCEPT !.df = [id |-> Fresh(lsb, thr, obs), val |-> thr[th].arg]],
                 [thr EXCEPT ![th].pc = "pf_price"], obs)

\* if not df.empty: self._last_price = float(df["Close"].iloc[-1])
push_frame_price ==
    \E th \in Producers :
      /\ thr[th].pc = "pf_price"
      /\ LET df == thr[th].arg
         IN  Leave(th, IF df # <<>> THEN [lsb EXCEPT !.last_price = Some(df[Len(df)])]
                       ELSE lsb, obs)

push_marker ==
    \E th \in Producers : Enter(th, "pm_append", <<obs.made + 1>>, 1)

\* self._markers.append(marker)
push_marker_append ==
    \E th \in Producers :
      /\ thr[th].pc = "pm_append"
      /\ Becomes([lsb EXCEPT !.lists[lsb.markers] = @ \o thr[th].arg],
                 [thr EXCEPT ![th].pc = "pm_slice"],
                 [obs EXCEPT !.added = @ \o thr[th].arg])

push_marker_slice ==
    \E th \in Producers :
      /\ thr[th].pc = "pm_slice"
      /\ Leave(th, Sliced(lsb, Fresh(lsb, thr, obs)), obs)

extend_markers ==
    \E th \in Producers, n \in ExtendLens :
        Enter(th, "em_extend", [k \in 1..n |-> obs.made + k], n)

\* self._markers.extend(list(markers))
extend_markers_extend ==
    \E th \in Producers :
      /\ thr[th].pc = "em_extend"
      /\ Becomes([lsb EXCEPT !.lists[lsb.markers] = @ \o thr[th].arg],
                 [thr EXCEPT ![th].pc = "em_slice"],
                 [obs EXCEPT !.added = @ \o thr[th].arg])

extend_markers_slice ==
    \E th \in Producers :
      /\ thr[th].pc = "em_slice"
      /\ Leave(th, Sliced(lsb, Fresh(lsb, thr, obs)), obs)

clear_markers ==
    \E th \in Producers : Enter(th, "cm_clear", <<>>, 0)

\* self._markers = []
clear_markers_clear ==
    \E th \in Producers :
      /\ thr[th].pc = "cm_clear"
      /\ LET new == Fresh(lsb, thr, obs)
         IN  Leave(th, [lsb EXCEPT !.markers = new, !.lists = (new :> <<>>) @@ @],
                   [obs EXCEPT !.added = <<>>])

\* the reader enters snapshot: it takes the lock; of the snapshots returned
\* before, the last one is remembered
snapshot ==
    /\ thr[Reader].pc = "idle"
    /\ LockFree(lsb.lock)
    /\ Becomes([lsb EXCEPT !.lock = Reader],
               [thr EXCEPT ![Reader] = At("sn_df", <<>>, <<>>)],
               [obs EXCEPT !.snaps = IF @ = <<>> THEN <<>> ELSE <<@[Len(@)]>>,
                           !.window = {obs.committed}])

\* self._df.copy()
snapshot_df ==
    /\ thr[Reader].pc = "sn_df"
    /\ Becomes(lsb, [thr EXCEPT ![Reader] = At("sn_markers", <<Fresh(lsb, thr, obs)>>,
                                               <<lsb.df.val>>)],
               obs)

\* list(self._markers)
snapshot_markers ==
    /\ thr[Reader].pc = "sn_markers"
    /\ LET id == CopiedList(lsb.markers, Fresh(lsb, thr, obs))
       IN  Becomes([lsb EXCEPT !.lists = (id :> lsb.lists[lsb.markers]) @@ @],
                   [thr EXCEPT ![Reader].pc = "sn_price", ![Reader].arg = Append(@, id)],
                   obs)

\* self._last_price; the tuple is returned and the lock released. quiet: no
\* producer entered a method since the snapshot before returned.
snapshot_return ==
    /\ thr[Reader].pc = "sn_price"
    /\ LET me == thr[Reader]
           res == [df |-> [id |-> me.arg[1], val |-> me.got[1]],
                   markers |-> [id |-> me.arg[2], val |-> lsb.lists[me.arg[2]]],
                   last_price |-> lsb.last_price,
                   window |-> obs.window, quiet |-> obs.quiet]
       IN  Becomes([lsb EXCEPT !.lock = IF @ = Reader THEN "free" ELSE @],
                   [thr EXCEPT ![Reader] = Idle],
                   [obs EXCEPT !.snaps = Append(@, res), !.quiet = TRUE, !.window = {}])

NextBuffer ==
    \/ push_frame \/ push_frame_df \/ push_frame_price
    \/ push_marker \/ push_marker_append \/ push_marker_slice
    \/ extend_markers \/ extend_markers_extend \/ extend_markers_slice
    \/ clear_markers \/ clear_markers_clear
    \/ snapshot \/ snapshot_df \/ snapshot_markers \/ snapshot_return

SpecBuffer == InitBuffer /\ [][NextBuffer]_vars

\* --------------------------------- the chart refresh on the live state buffer
\* MainWindow._refresh_chart publishes a refresh as three calls of the buffer,
\* push_frame; clear_markers; extend_markers, on the UI thread, while the
\* SimulationFeed thread calls push_frame and push_marker on the same buffer
\* and a reader calls snapshot. Of the producers the first is the UI thread,
\* the second the feed thread.
MaxRefreshes == 2         \* cap on the refreshes of a run
MaxFeedCalls == 1         \* cap on the calls the feed thread makes

UiThread == "P1"
FeedThread == "P2"
RefreshFrames == {<<10>>, <<10, 20>>}    \* what fetch_ohlc returned
FeedFrames == {<<30>>}                   \* the tail of the simulated frame
RefreshLens == {0, 1}                    \* how many markers the symbol has

\* the refresh in progress, or the last one made
LastRefresh(o) == o.published[Len(o.published)]

\* what a refresh leaves in the buffer when nothing else writes
Published(r) == [df |-> r.df, markers |-> LastN(r.markers, MarkerCap)]

InitRefresh ==
    /\ cash = StartingCash * LotsPerUnit * FeeDen
    /\ books = <<>>
    /\ trades = <<>>
    /\ ret = NoCall
    /\ last_prices = <<>>
    /\ actions = <<>>
    /\ calc = NoCalc
    /\ last_trade_time = <<>>
    /\ now = 0
    /\ auto_cfg = <<>>
    /\ trade_ts = <<>>
    /\ lsb = [df |-> [id |-> 1, val |-> <<>>], markers |-> 2, last_price |-> None,
              lock |-> "free", lists |-> (2 :> <<>>)]
    /\ thr = [t \in Producers \cup {Reader} |-> Idle]
    /\ obs = [snaps |-> <<>>,
              committed |-> [df |-> <<>>, markers |-> <<>>, last_price |-> None],
              window |-> {}, added |-> <<>>, quiet |-> FALSE, writes |-> 0, made |-> 0,
              stage |-> 0, published |-> <<>>, feeds |-> 0, between |-> TRUE]

\* a thread enters a method of the buffer: it takes the lock
Calls(th, pc, arg, o) ==
    /\ thr[th].pc = "idle"
    /\ LockFree(lsb.lock)
    /\ Becomes([lsb EXCEPT !.lock = th],
               [thr EXCEPT ![th] = At(pc, arg, <<>>)],
               [o EXCEPT !.writes = @ + 1, !.quiet = FALSE])

\* self.state_buffer.push_frame(self.last_df), the first call of a refresh;
\* the markers of the symbol are those _markers_for_symbol will return
refresh_push_frame ==
    \E df \in RefreshFrames, n \in RefreshLens :
      /\ obs.stage = 0
      /\ Len(obs.published) < MaxRefreshes
      /\ Calls(UiThread, "pf_df", df,
               [obs EXCEPT !.stage = 1, !.made = @ + n,
                           !.published = Append(@, [df |-> df,
                                                    markers |-> [k \in 1..n |-> obs.made + k]])])

\* self.state_buffer.clear_markers()
refresh_clear_markers ==
    /\ obs.stage = 1
    /\ Calls(UiThread, "cm_clear", <<>>, [obs EXCEPT !.stage = 2])

\* self.state_buffer.extend_markers(markers)
refresh_extend_markers ==
    /\ obs.stage = 2
    /\ Calls(UiThread, "em_extend", LastRefresh(obs).markers, [obs EXCEPT !.stage = 0])

\* SimulationFeed.run: self.buffer.push_frame(self._df.tail(400))
feed_push_frame ==
    \E df \in FeedFrames :
      /\ obs.feeds < MaxFeedCalls
      /\ Calls(FeedThread, "pf_df", df, [obs EXCEPT !.feeds = @ + 1])

\* SimulationFeed.run: self.buffer.push_marker(marker)
feed_push_marker ==
    /\ obs.feeds < MaxFeedCalls
    /\ Calls(FeedThread, "pm_append", <<obs.made + 1>>,
             [obs EXCEPT !.feeds = @ + 1, !.made = @ + 1])

\* the UI thread is not inside a refresh, as when its render timer fires
BetweenRefreshes(t, o) == o.stage = 0 /\ t[UiThread].pc = "idle"

\* _render_live_snapshot: self.state_buffer.snapshot(), entered as snapshot
\* is; the snapshot returned before is forgotten, and between tells whether
\* the UI thread was between refreshes when the call was made
render_live_snapshot ==
    /\ thr[Reader].pc = "idle"
    /\ LockFree(lsb.lock)
    /\ Becomes([lsb EXCEPT !.lock = Reader],
               [thr EXCEPT ![Reader] = At("sn_df", <<>>, <<>>)],
               [obs EXCEPT !.snaps = <<>>,
                           !.window = {obs.committed},
                           !.between = BetweenRefreshes(thr, obs)])

NextRefresh ==
    \/ refresh_push_frame \/ refresh_clear_markers \/ refresh_extend_markers
    \/ feed_push_frame \/ feed_push_marker
    \/ render_live_snapshot
    \/ push_frame_df \/ push_frame_price
    \/ push_marker_append \/ push_marker_slice
    \/ extend_markers_extend \/ extend_markers_slice
    \/ clear_markers_clear
    \/ snapshot_df \/ snapshot_markers \/ snapshot_return

SpecRefresh == InitRefresh /\ [][NextRefresh]_vars

\* ======================================================= ledger properties
InitialCash == StartingCash * LotsPerUnit * FeeDen

\* the signed cash flow a Trade records: a buy pays qty*price + fee, a sell
\* receives qty*price - fee
TradeFlow(t) ==
    IF t.side = "buy" THEN -(t.qty * t.price * FeeDen + t.fee)
                      ELSE t.qty * t.price * FeeDen - t.fee

RECURSIVE SumFlows(_, _)
SumFlows(ts, n) == IF n = 0 THEN 0 ELSE SumFlows(ts, n - 1) + TradeFlow(ts[n])

\* C1 (cash conservation): in every state reached by successful and failed
\* open_leg / close_qty_fifo calls, cash is the starting cash plus the sum of
\* the signed cash flows of all recorded Trades.
C1_CashConservation == cash = InitialCash + SumFlows(trades, Len(trades))

\* C1 witness: a buy and a sell have been recorded, one of them by a close,
\* and the last call failed.
C1_Witness ==
    /\ ret.err # ""
    /\ \E i, j \in 1..Len(trades) :
          /\ trades[i].side = "buy"
          /\ trades[j].side = "sell"
          /\ trades[j].note = "CLOSE"

\* C2 (failure atomicity), as claimed: a failed open_leg or close_qty_fifo
\* leaves cash, the book mapping (its key set included), every book's legs
\* and the trade list as they were.
C2_FailureAtomic ==
    [][ret'.err # "" => (cash' = cash /\ books' = books /\ trades' = trades)]_vars

\* ---- the step just taken, read from ret' (the call) and the state before it
Opened == ret'.op = "open_leg" /\ ret'.err = ""
Closed == ret'.op = "close_qty_fifo" /\ ret'.err = ""
LegsBefore == LegsOf(books, ret'.symbol)
LegsAfter == LegsOf(books', ret'.symbol)
LastTrade == trades'[Len(trades')]

\* signed sum over legs: long quantities minus short quantities
RECURSIVE SignedSum(_)
SignedSum(legs) ==
    IF legs = <<>> THEN 0
    ELSE (IF Head(legs).side = "long" THEN Head(legs).qty ELSE -Head(legs).qty)
         + SignedSum(Tail(legs))

NetSide(legs) == IF SignedSum(legs) > 0 THEN "long" ELSE "short"

\* take_i = min(qty_i, q - sum of take_j over older net-side legs j < i)
RECURSIVE TakeOf(_, _, _, _)
RECURSIVE TakenBefore(_, _, _, _)
TakenBefore(legs, side, q, i) ==
    IF i <= 1 THEN 0
    ELSE TakenBefore(legs, side, q, i - 1) + TakeOf(legs, side, q, i - 1)

TakeOf(legs, side, q, i) ==
    IF legs[i].side # side THEN 0
    ELSE Min(legs[i].qty, q - TakenBefore(legs, side, q, i))

\* the legs FIFO closing must leave: each leg less its take, the emptied
\* legs dropped, in the order they had
FifoExpectedLegs(legs, side, q) ==
    SelectSeq([i \in 1..Len(legs) |-> [legs[i] EXCEPT !.qty = @ - TakeOf(legs, side, q, i)]],
              LAMBDA l : l.qty > 0)

RECURSIVE FifoExpectedPnl(_, _, _, _, _)
FifoExpectedPnl(legs, side, q, exit, i) ==
    IF i > Len(legs) THEN 0
    ELSE (IF side = "long" THEN (exit - legs[i].entry) ELSE (legs[i].entry - exit))
             * TakeOf(legs, side, q, i) * FeeDen
         + FifoExpectedPnl(legs, side, q, exit, i + 1)

\* C3 (FIFO closing): a successful close of quantity q consumes the net-side
\* legs oldest first, take_i = min(qty_i, q - takes of the older legs); the
\* Trade's realized PnL is the sum of the per-leg PnL of the takes minus the
\* fee on q*price; emptied legs are removed, at most one leg is left partly
\* shrunk, a newer leg is touched only when every older one is emptied, and
\* the surviving legs keep their order.
C3_FifoClosing ==
    [][Closed =>
        LET legs == LegsBefore
            side == NetSide(legs)
            q == LastTrade.qty
            exit == ret'.price
            net == {i \in 1..Len(legs) : legs[i].side = side}
        IN  /\ LegsAfter = FifoExpectedLegs(legs, side, q)
            /\ LastTrade.pnl_realized
                  = FifoExpectedPnl(legs, side, q, exit, 1)
                    - (Abs(q * exit * FeeDen) * FeeNum) \div FeeDen
            /\ TakenBefore(legs, side, q, Len(legs) + 1) = q
            /\ \A i, j \in net :
                  (i < j /\ TakeOf(legs, side, q, j) > 0)
                      => TakeOf(legs, side, q, i) = legs[i].qty
            /\ Cardinality({i \in net : /\ TakeOf(legs, side, q, i) > 0
                                        /\ TakeOf(legs, side, q, i) < legs[i].qty}) <= 1
    ]_vars

\* C3 witness: two legs opened at different prices on one instrument, then a
\* close that empties the older leg and shrinks the newer one.
C3_Witness ==
    /\ ret.op = "close_qty_fifo" /\ ret.err = ""
    /\ Len(trades) = 3
    /\ \A i \in 1..2 : trades[i].note = "OPEN" /\ trades[i].symbol = ret.symbol
    /\ trades[1].side = trades[2].side
    /\ trades[1].price # trades[2].price
    /\ trades[3].qty > trades[1].qty
    /\ trades[3].qty < trades[1].qty + trades[2].qty
    /\ Len(books[ret.symbol]) = 1
    /\ books[ret.symbol][1].entry = trades[2].price
    /\ books[ret.symbol][1].qty = trades[1].qty + trades[2].qty - trades[3].qty

\* C4 (single-side books), as claimed: in every reachable ledger state all
\* legs of a book are on the same side.
C4_SingleSideBooks ==
    \A s \in DOMAIN books :
        \A i, j \in 1..Len(books[s]) : books[s][i].side = books[s][j].side

\* C5 (net-quantity identity and full close), as claimed: net_qty of every
\* book is the long quantities minus the short quantities, and a successful
\* close of at least |net_qty| leaves the book's leg list empty, net_qty 0
\* and avg_entry 0.
C5_NetQtyAndFullClose ==
    [][/\ \A s \in DOMAIN books' :
             net_qty(books'[s])
                 = SideQty(books'[s], "long", 1) - SideQty(books'[s], "short", 1)
       /\ (Closed /\ ret'.qty >= Abs(net_qty(LegsBefore)))
             => /\ LegsAfter = <<>>
                /\ net_qty(LegsAfter) = 0
                /\ avg_entry(LegsAfter) = <<0, 1>>
    ]_vars

\* what the call costs: qty*price plus the fee on it
CostOf(qty, price) == qty * price * FeeDen + (Abs(qty * price * FeeDen) * FeeNum) \div FeeDen

\* C6 (ledger error outcomes): open_leg and close_qty_fifo fail for a
\* quantity <= 0; an open_leg(long) of a positive quantity fails exactly when
\* cash < qty*price + fee; an open_leg(short) of a positive quantity never
\* fails; a close on a net-short book fails exactly when
\* cash < closed_qty*price + fee; a close on a net-long book never fails.
C6_ErrorOutcomes ==
    [][LET c == ret'
           nq == net_qty(LegsBefore)
           closed == Min(c.qty, Abs(nq))
       IN  /\ (c.op \in {"open_leg", "close_qty_fifo"} /\ c.qty <= 0) => c.err # ""
           /\ (c.op = "open_leg" /\ c.qty > 0 /\ c.side = "long")
                 => (c.err # "" <=> cash < CostOf(c.qty, c.price))
           /\ (c.op = "open_leg" /\ c.qty > 0 /\ c.side = "short") => c.err = ""
           /\ (c.op = "close_qty_fifo" /\ c.qty > 0 /\ nq < 0)
                 => (c.err # "" <=> cash < CostOf(closed, c.price))
           /\ (c.op = "close_qty_fifo" /\ c.qty > 0 /\ nq > 0) => c.err = ""
    ]_vars

\* C6 witness: a close on a net-short book has failed for lack of cash, after
\* a short was opened without any cash requirement.
C6_Witness ==
    /\ ret.op = "close_qty_fifo" /\ ret.err = ErrCashShort
    /\ net_qty(books[ret.symbol]) < 0
    /\ cash < CostOf(Min(ret.qty, Abs(net_qty(books[ret.symbol]))), ret.price)

\* C7 (open_leg appends): a successful open_leg appends exactly one Leg with
\* the given side, quantity and entry price to the end of the instrument's
\* book and exactly one Trade to the end of the trade list; the Trade's
\* realized PnL is minus its fee and the fee is |qty*price| * fee_rate; no
\* earlier Trade, and no leg of any book, is modified.
C7_OpenAppends ==
    [][Opened =>
        LET c == ret' IN
        /\ LegsAfter = LegsBefore \o <<[side |-> c.side, qty |-> c.qty, entry |-> c.price]>>
        /\ Len(trades') = Len(trades) + 1
        /\ SubSeq(trades', 1, Len(trades)) = trades
        /\ LastTrade.symbol = c.symbol /\ LastTrade.qty = c.qty /\ LastTrade.price = c.price
        /\ LastTrade.side = (IF c.side = "long" THEN "buy" ELSE "sell")
        /\ LastTrade.fee * FeeDen = Abs(c.qty * c.price * FeeDen) * FeeNum
        /\ LastTrade.pnl_realized = -LastTrade.fee
        /\ \A s \in DOMAIN books : s # c.symbol => (s \in DOMAIN books' /\ books'[s] = books[s])
    ]_vars

\* C7 witness: an open_leg has succeeded on a book that already held a leg.
C7_Witness ==
    /\ ret.op = "open_leg" /\ ret.err = ""
    /\ Len(books[ret.symbol]) >= 2
    /\ trades[Len(trades)].pnl_realized = -trades[Len(trades)].fee
    /\ trades[Len(trades)].fee > 0

Range(f) == {f[i] : i \in DOMAIN f}

C10_KillSwitchInitialCash ==
    \A prices \in [Symbols -> Prices] :
        ~KillSwitchCheck(TheLedger, prices)
            <=> equity(TheLedger, prices) * KillSwitchDen
                    <= (KillSwitchDen - KillSwitchNum) * InitialCash

\* ==================================================== risk-gate properties
\* C11 (exposure check), as claimed: with positive equity and a known price,
\* check_limits rejects on exposure grounds exactly when the instrument's
\* exposure fraction |net_qty*price| / equity is strictly greater than the
\* configured maximum exposure (max_exposure_pct); an exposure equal to or
\* below it does not reject.
C11_ExposureStrict ==
    \A prices \in [Symbols -> MarkPrices], s \in Symbols :
        LET eq == equity(TheLedger, prices)
            expo == Abs(Notional(net_qty(LegsOf(books, s)), prices[s]))
        IN  eq > 0 =>
               (~ExposureCheck(TheLedger, prices, s)
                    <=> expo * MaxExposureDen > MaxExposureNum * eq)

\* the five conditions of the risk gate, each from the quantities it reads
C12_QtyOk(qty) == qty > 0

C12_ExposureOk(L, prices, s) ==
    LET eq == equity(L, prices)
        p == IF s \in DOMAIN prices THEN prices[s] ELSE 0
        expo == Abs(Notional(net_qty(LegsOf(L.books, s)), p))
    IN  (eq > 0 /\ p > 0) => expo * MaxDrawdownDen < MaxDrawdownNum * eq

C12_TradesOk(L) == Len(L.trades) < RiskMaxTrades

C12_KillSwitchOk(L, prices) ==
    equity(L, prices) * KillSwitchDen > (KillSwitchDen - KillSwitchNum) * L.cash

C12_LegsOk(L, s) == Len(LegsOf(L.books, s)) < MaxConcurrentLegs

\* the price maps the gate is asked with: the last prices of the engine and
\* every map of the symbols to a Close
C12_PriceMaps == {last_prices} \cup [Symbols -> EnginePrices]

C12_OnlyFails(L, prices, s, qty, k) ==
    LET checks == <<C12_QtyOk(qty), C12_ExposureOk(L, prices, s), C12_TradesOk(L),
                    C12_KillSwitchOk(L, prices), C12_LegsOk(L, s)>>
    IN  ~checks[k] /\ \A j \in 1..5 : j # k => checks[j]

Called(fn) == calc.fn = fn /\ calc.out # None

\* C13 (PositionSizer.size_position): the result is 0 for price <= 0; it is
\* max(fixed_notional, 0) / price when stop_loss is null or equal to price;
\* otherwise it is max(equity * risk_per_trade_pct, 0) / |price - stop_loss|;
\* it is never negative; equity 1000, price 10, no stop, fixed_notional 100
\* gives 10, and equity 2000, price 20, stop 19, risk fraction 0.02 gives 40.
C13_SizerFormulas ==
    Called("size_position") =>
        LET i == calc.in
            q == calc.out[1]
            fixed == IF i.cfg.fixed_notional > 0 THEN i.cfg.fixed_notional ELSE 0
            risk == IF i.equity * i.cfg.risk_num > 0 THEN i.equity * i.cfg.risk_num ELSE 0
            no_stop == i.stop_loss = None \/ i.stop_loss = <<i.price>>
        IN  /\ q[2] > 0
            /\ i.price <= 0 => q[1] = 0
            /\ (i.price > 0 /\ no_stop) => q[1] * i.price = fixed * q[2]
            /\ (i.price > 0 /\ ~no_stop)
                  => q[1] * i.cfg.risk_den * Abs(i.price - i.stop_loss[1]) = risk * q[2]
            /\ q[1] >= 0
            /\ i = [cfg |-> SizeConfig(100, 1, 100), equity |-> 1000, price |-> 10,
                    stop_loss |-> None]
                  => q[1] = 10 * q[2]
            /\ i = [cfg |-> SizeConfig(100, 2, 100), equity |-> 2000, price |-> 20,
                    stop_loss |-> Some(19)]
                  => q[1] = 40 * q[2]

\* C13 witness: the sizer has returned 40 for equity 2000, price 20, stop 19
\* and a risk fraction of 0.02.
C13_Witness ==
    /\ Called("size_position")
    /\ calc.in.equity = 2000 /\ calc.in.price = 20 /\ calc.in.stop_loss = Some(19)
    /\ calc.in.cfg.risk_num = 2
    /\ calc.out[1][1] = 40 * calc.out[1][2]

\* The fee/slippage statement, for a given reading IsBuy of "the side is buy".
C14_Statement(IsBuy(_)) ==
    /\ Called("apply_slippage") =>
          LET i == calc.in
              bps == i.fm.slippage_bps
              p == calc.out[1]
          IN  /\ p[2] > 0
              /\ (i.price > 0 /\ bps[1] > 0 /\ IsBuy(i.side))
                    => /\ p[1] > i.price * p[2]
                       /\ (p[1] - i.price * p[2]) * bps[2] * 10000 = i.price * bps[1] * p[2]
              /\ (i.price > 0 /\ bps[1] > 0 /\ ~IsBuy(i.side))
                    => /\ p[1] < i.price * p[2]
                       /\ (i.price * p[2] - p[1]) * bps[2] * 10000 = i.price * bps[1] * p[2]
              /\ bps[1] <= 0 => p[1] = i.price * p[2]
    /\ Called("fee") =>
          LET i == calc.in
              rate == IF i.taker THEN i.fm.taker_fee ELSE i.fm.maker_fee
              f == calc.out[1]
          IN  /\ f[2] > 0
              /\ f[1] * rate[2] = Abs(i.notional) * rate[1] * f[2]
              /\ (i.fm.taker_fee[1] >= 0 /\ i.fm.maker_fee[1] >= 0) => f[1] >= 0
              /\ (i.notional = 1000 /\ i.taker /\ i.fm.taker_fee = <<2, 1000>>)
                    => f[1] = 2 * f[2]

\* C14 (fee/slippage model), as claimed: for price > 0 and slippage_bps > 0
\* apply_slippage returns more than the price for side 'buy' and less than
\* the price for any other side, by price*slippage_bps/10000; for
\* slippage_bps <= 0 it returns the price; fee(notional) is |notional| times
\* the taker rate (the maker rate when taker is false), never negative for
\* non-negative rates.
C14_FeeSlippage_AsClaimed == C14_Statement(LAMBDA side : side = "buy")

\* C14, amended: the same, where the side counts as buy when it is 'buy' in
\* any letter case (side.lower() == 'buy'), and as another side otherwise.
C14_FeeSlippage == C14_Statement(LAMBDA side : Lower(side) = "buy")

\* C14 witness: a slippage of 10 bps on price 100 has been applied for the
\* side 'BUY', and the price returned is 100.1.
C14_Witness ==
    /\ Called("apply_slippage")
    /\ calc.in.side = "BUY" /\ calc.in.price = 100 /\ calc.in.fm.slippage_bps = <<10, 1>>
    /\ calc.out[1][1] * 10 = 1001 * calc.out[1][2]

\* the largest of curve[1..i]
RECURSIVE C15_Peak(_, _)
C15_Peak(curve, i) ==
    IF i = 1 THEN curve[1]
    ELSE IF curve[i] > C15_Peak(curve, i - 1) THEN curve[i] ELSE C15_Peak(curve, i - 1)

RECURSIVE C15_SumPnl(_, _)
C15_SumPnl(ts, n) == IF n = 0 THEN 0 ELSE C15_SumPnl(ts, n - 1) + ts[n].pnl_realized

\* C15 (equity curve and drawdown): equity_curve_from_trades over n trades
\* returns n+1 points, the first the starting cash and each next one the
\* previous plus the realized PnL of the next trade, so that the last is the
\* starting cash plus the total realized PnL; max_drawdown of a curve is >= 0
\* and is the largest (running peak - value) / running peak over the points
\* whose running peak is positive (0 when there is none); the curve
\* [100, 110, 105] has drawdown 5/110.
C15_CurveAndDrawdown ==
    /\ Called("equity_curve_from_trades") =>
          LET ts == calc.in.trades
              c == calc.out[1]
          IN  /\ Len(c) = Len(ts) + 1
              /\ c[1] = calc.in.starting_cash
              /\ \A k \in 1..Len(ts) : c[k + 1] = c[k] + ts[k].pnl_realized
              /\ c[Len(c)] = calc.in.starting_cash + C15_SumPnl(ts, Len(ts))
              /\ (calc.in.starting_cash = 100 /\ ts = <<PnlTrade(10), PnlTrade(-5)>>)
                    => c = <<100, 110, 105>>
    /\ Called("max_drawdown") =>
          LET c == calc.in.curve
              dd == calc.out[1]
              at == {k \in 1..Len(c) : C15_Peak(c, k) > 0}
              terms == {<<C15_Peak(c, k) - c[k], C15_Peak(c, k)>> : k \in at}
          IN  /\ dd[2] > 0 /\ dd[1] >= 0
              /\ at = {} => dd[1] = 0
              /\ at # {} => /\ \E t \in terms : RatEq(dd, t)
                            /\ \A t \in terms : RatLe(t, dd)
              /\ c = <<100, 110, 105>> => RatEq(dd, <<5, 110>>)

\* C15 witness: max_drawdown has returned 5/110 for the curve [100, 110, 105].
C15_Witness ==
    /\ Called("max_drawdown")
    /\ calc.in.curve = <<100, 110, 105>>
    /\ calc.out[1][1] * 110 = 5 * calc.out[1][2]

\* =================================================== orchestrator properties
Stepped == ret'.op = "step"

\* the trades the step just taken appended
NewTrades == (Len(trades) + 1)..Len(trades')

\* C16 (cooldown): a step makes no change to the ledger on an instrument whose
\* recorded last trade time t has now - t < cooldown_sec - its legs stay, no
\* Trade is recorded for it, its last trade time stays; and with
\* cooldown_sec > 0 and tick times that do not decrease, any two trades made
\* on one instrument are at least cooldown_sec apart, also when the watchlist
\* names the instrument twice.
C16_Cooldown ==
    [][Stepped =>
        /\ \A s \in Symbols :
              (s \in DOMAIN last_trade_time
                 /\ now' - last_trade_time[s] < auto_cfg.cooldown_sec)
                  => /\ s \in DOMAIN books /\ books'[s] = books[s]
                     /\ \A k \in NewTrades : trades'[k].symbol # s
                     /\ last_trade_time'[s] = last_trade_time[s]
        /\ auto_cfg.cooldown_sec > 0 =>
              \A i, j \in 1..Len(trades') :
                  (i < j /\ trades'[i].symbol = trades'[j].symbol)
                      => trade_ts'[j] - trade_ts'[i] >= auto_cfg.cooldown_sec
    ]_vars

\* C16 witness: with a cooldown, two trades have been made on one instrument,
\* exactly cooldown_sec apart, by ticks whose watchlist names it twice or
\* that came more often than the cooldown.
C16_Witness ==
    /\ auto_cfg.cooldown_sec > 0
    /\ \E i, j \in 1..Len(trades) :
          /\ i < j /\ trades[i].symbol = trades[j].symbol
          /\ trade_ts[j] - trade_ts[i] = auto_cfg.cooldown_sec

\* FLAT, LONG or SHORT, from the net quantity of a book
DirectionOf(legs) ==
    IF net_qty(legs) > 0 THEN "LONG" ELSE IF net_qty(legs) < 0 THEN "SHORT" ELSE "FLAT"

\* C17 (state machine of an instrument): no step takes an instrument from
\* LONG to SHORT or from SHORT to LONG - its direction changes only by
\* FLAT -> LONG, FLAT -> SHORT, LONG -> LONG, SHORT -> SHORT, LONG -> FLAT or
\* SHORT -> FLAT - and no step opens a leg on the side opposite to the
\* position the instrument had when the step began.
C17_StateMachine ==
    [][Stepped =>
        \A s \in Symbols :
            LET before == DirectionOf(LegsOf(books, s))
                after == DirectionOf(LegsOf(books', s))
            IN  /\ ~(before = "LONG" /\ after = "SHORT")
                /\ ~(before = "SHORT" /\ after = "LONG")
                /\ \A k \in NewTrades :
                      (trades'[k].symbol = s /\ trades'[k].note = "OPEN")
                          => /\ before = "LONG" => trades'[k].side = "buy"
                             /\ before = "SHORT" => trades'[k].side = "sell"
                /\ \A i \in 1..Len(LegsOf(books', s)) :
                      /\ before = "LONG" => books'[s][i].side = "long"
                      /\ before = "SHORT" => books'[s][i].side = "short"
    ]_vars

\* C17 witness: an instrument was entered by one tick and scaled out by a
\* later one, and still has a position; the last tick returned.
C17_Witness ==
    /\ ret.op = "step" /\ ret.err = ""
    /\ \E i, j \in 1..Len(trades) :
          /\ i < j /\ trades[i].symbol = trades[j].symbol
          /\ trades[i].note = "OPEN" /\ trades[j].note = "CLOSE"
          /\ trade_ts[i] < trade_ts[j]
          /\ DirectionOf(books[trades[i].symbol]) # "FLAT"

\* the state a tick starts its loop in
StepState ==
    [cash |-> cash, books |-> books, trades |-> trades, ltt |-> last_trade_time,
     logs |-> <<>>, open_assets |-> position_count(books), err |-> "",
     inexact |-> FALSE, capped |-> FALSE]

\* the instrument has a position that can be halved, a frame, no cooldown
\* running at time tnow, and a decision opposite to the position
C18_Case(s, bar, tnow) ==
    LET nq == net_qty(LegsOf(books, s))
    IN  /\ bar.len >= MinAutoBars
        /\ nq # 0 /\ Abs(nq) % 2 = 0
        /\ s \in DOMAIN last_trade_time
              => tnow - last_trade_time[s] >= auto_cfg.cooldown_sec
        /\ (nq > 0 /\ bar.d.action = "SELL") \/ (nq < 0 /\ bar.d.action = "BUY")

\* The scale-out statement about the loop body of step, run for instrument s
\* on any reachable state; always: the close is claimed never to fail.
C18_Statement(always) ==
    \A s \in Symbols, bar \in Bars, dt \in 0..2 :
        LET tnow == now + dt
            nq == net_qty(LegsOf(books, s))
            half == Abs(nq) \div 2
        IN  C18_Case(s, bar, tnow) =>
             \A r \in {StepSymbol(StepState, auto_cfg, s, s :> bar, tnow,
                                  equity(TheLedger, s :> bar.close))} :
               LET nq2 == net_qty(LegsOf(r.books, s))
                   t == r.trades[Len(r.trades)]
               IN
               IF r.err = ""
               THEN /\ 2 * nq2 = nq /\ nq2 # 0
                    /\ r.books[s] = FifoExpectedLegs(books[s], NetSide(books[s]), half)
                    /\ Len(r.trades) = Len(trades) + 1
                    /\ t.symbol = s /\ t.note = "CLOSE" /\ 2 * t.qty = Abs(nq)
                    /\ t.price = bar.close
                    /\ r.ltt[s] = tnow
                    /\ Len(r.logs) = 1 /\ r.logs[1].symbol = s
               ELSE /\ ~always
                    /\ nq < 0 /\ r.err = ErrCashShort
                    /\ cash < CostOf(half, bar.close)
                    /\ r.cash = cash /\ r.books = books /\ r.trades = trades
                    /\ r.ltt = last_trade_time

\* C18 (scale-out on flip), as claimed: whenever an instrument has an open
\* position, is out of cooldown and gets a decision opposite to the position,
\* step closes exactly half of the open quantity by FIFO, the position keeps
\* its sign at half the magnitude (never FLAT), and the instrument's last
\* trade time is set to now.
C18_ScaleOut_AsClaimed == C18_Statement(TRUE)

\* C18, amended: the same whenever the close goes through, which it always
\* does on a long; on a short the cover of half the quantity fails when
\* cash < half*price + fee, and then cash, books, trades and last trade times
\* are as they were.
C18_ScaleOut == C18_Statement(FALSE)

\* C18 witness: the last tick returned with a scale-out of an instrument at
\* time now: its Trade closed as much as the book still holds.
C18_Witness ==
    /\ ret.op = "step" /\ ret.err = ""
    /\ \E k \in 1..Len(trades) :
          LET s == trades[k].symbol IN
          /\ trades[k].note = "CLOSE" /\ trade_ts[k] = now
          /\ Log(s, "SCALE-OUT") \in {ret.logs[i] : i \in 1..Len(ret.logs)}
          /\ last_trade_time[s] = now
          /\ Abs(net_qty(books[s])) = trades[k].qty

\* C19 (error containment), as claimed: a ledger operation that fails during
\* a tick does not abort the tick - step skips the instrument, goes on with
\* the rest of the watchlist and returns the log lines - so every step
\* returns.
C19_ErrorContained == ret.op = "step" => ret.err = ""

\* how many entries of a sequence satisfy a test
CountOf(seq, Test(_)) == Cardinality({i \in 1..Len(seq) : Test(seq[i])})

\* C20 (action accounting), as claimed: for every Trade a step appends the
\* instrument's last trade time is the tick's now and the returned list has
\* one log line for it, so that per instrument, and in total, there are as
\* many returned log lines as Trades appended; an instrument without a new
\* Trade keeps its last trade time.
C20_ActionAccounting ==
    [][Stepped =>
        /\ Len(ret'.logs) = Len(trades') - Len(trades)
        /\ \A s \in Symbols :
              LET made == {k \in NewTrades : trades'[k].symbol = s}
              IN  /\ CountOf(ret'.logs, LAMBDA l : l.symbol = s) = Cardinality(made)
                  /\ made # {} => (s \in DOMAIN last_trade_time'
                                      /\ last_trade_time'[s] = now')
                  /\ made = {} => /\ (s \in DOMAIN last_trade_time')
                                        = (s \in DOMAIN last_trade_time)
                                  /\ s \in DOMAIN last_trade_time
                                        => last_trade_time'[s] = last_trade_time[s]
    ]_vars

\* C21 (max-open-assets cap): from a ledger with no more than max_open_assets
\* instruments holding a position, after any sequence of steps with that
\* configuration the number of instruments with a non-zero net position is
\* never above max_open_assets, also when several flat instruments qualify
\* for entry within one tick.
C21_MaxOpenAssets == position_count(books) <= auto_cfg.max_open_assets

\* C21 witness: the last tick returned having made an entry and then refused
\* a flat instrument at the cap, and as many instruments as the cap allows
\* hold a position.
C21_Witness ==
    /\ ret.op = "step" /\ ret.err = "" /\ ret.capped
    /\ \E i \in 1..Len(ret.logs) : ret.logs[i].text \in {"ENTRY LONG", "ENTRY SHORT"}
    /\ position_count(books) = auto_cfg.max_open_assets

\* ===================================================== buffer properties
\* what a snapshot returned, as values
Returned(r) == [df |-> r.df.val, markers |-> r.markers.val, last_price |-> r.last_price]

\* C22 (atomic snapshot under concurrency): for any interleaving of the
\* producers' push_frame, push_marker, extend_markers and clear_markers with
\* the reader's snapshot, every snapshot returns frame, markers and last price
\* as a completed writer call left them - the state the buffer was left in
\* when the snapshot began or by a call completed while it ran - and a
\* non-empty frame returned comes with its own last Close as the last price,
\* never with that of another push_frame.
C22_AtomicSnapshot ==
    \A k \in 1..Len(obs.snaps) :
        LET r == obs.snaps[k]
        IN  /\ Returned(r) \in r.window
            /\ r.df.val # <<>> => r.last_price = Some(r.df.val[Len(r.df.val)])

\* C22 witness: while a producer is inside a method, the reader holds two
\* snapshots taken between the producers' calls: the later one has the frame
\* <<10, 20>> with last price 20 and markers, the one before it another frame.
C22_Witness ==
    /\ Len(obs.snaps) = 2
    /\ obs.snaps[2].df.val = <<10, 20>> /\ obs.snaps[2].last_price = Some(20)
    /\ obs.snaps[2].markers.val # <<>>
    /\ obs.snaps[1].df.val # obs.snaps[2].df.val
    /\ \E th \in Producers : thr[th].pc # "idle" /\ lsb.lock = th

\* C23 (bounded marker list): whenever no producer is between the two
\* statements of push_marker or extend_markers, the buffer holds at most
\* MarkerCap markers, and they are the last (up to MarkerCap) of the markers
\* added since the last clear_markers, in the order they were added.
C23_BoundedMarkers ==
    (\A th \in Producers : thr[th].pc \notin {"pm_slice", "em_slice"}) =>
        LET m == lsb.lists[lsb.markers]
            a == obs.added
        IN  /\ Len(m) <= MarkerCap
            /\ Len(m) = Min(Len(a), MarkerCap)
            /\ \A i \in 1..Len(m) : m[i] = a[Len(a) - Len(m) + i]

\* C23 witness: after a clear_markers more markers than the cap were added,
\* the oldest are gone and no call is in progress.
C23_Witness ==
    /\ \A th \in Producers : thr[th].pc = "idle"
    /\ obs.made > Len(obs.added)
    /\ Len(obs.added) > MarkerCap
    /\ Len(lsb.lists[lsb.markers]) = MarkerCap

\* the snapshots the reader holds are as they were returned, are objects of
\* their own, and two of them with no writer call between them are equal
C24_Snapshots ==
    /\ \A k \in 1..Len(obs.snaps) :
          LET r == obs.snaps[k]
          IN  /\ r.df.id # lsb.df.id
              /\ r.markers.id # lsb.markers
              /\ lsb.lists[r.markers.id] = r.markers.val
    /\ (Len(obs.snaps) = 2 /\ obs.snaps[2].quiet)
          => /\ Returned(obs.snaps[1]) = Returned(obs.snaps[2])
             /\ obs.snaps[1].df.id # obs.snaps[2].df.id
             /\ obs.snaps[1].markers.id # obs.snaps[2].markers.id

\* C24 (idempotent snapshot): two snapshot calls with no writer call between
\* them return equal (frame, markers, last price); no statement of snapshot
\* changes what the buffer holds; the frame and the list returned are copies,
\* not the buffer's own objects, so that a later write does not show in them.
C24_IdempotentSnapshot ==
    [][/\ thr'[Reader] # thr[Reader]
          => /\ Abstract(lsb') = Abstract(lsb)
             /\ lsb'.df = lsb.df /\ lsb'.markers = lsb.markers
       /\ C24_Snapshots'
    ]_vars

\* C24 witness: two snapshots with no writer call between them, of a frame
\* and markers; after them a producer has added a marker to the buffer's list.
C24_Witness ==
    /\ Len(obs.snaps) = 2 /\ obs.snaps[2].quiet
    /\ obs.snaps[2].df.val # <<>> /\ obs.snaps[2].markers.val # <<>>
    /\ \E th \in Producers : thr[th].pc = "pm_slice"

\* ============================================== decision engine properties
\* C25 (CHOP forces HOLD): whenever detect_regime gives CHOP, decide returns
\* HOLD with null entry, stop_loss and take_profit, whatever the EMAs, the
\* RSI and the MACD are; a BUY or SELL is only returned in TREND or RANGE.
C25_ChopHolds ==
    Called("decide") =>
        LET d == calc.out[1]
        IN  /\ d.regime = detect_regime(calc.in.ind)
            /\ d.regime = "CHOP"
                  => /\ d.action = "HOLD"
                     /\ d.entry = None /\ d.stop_loss = None /\ d.take_profit = None
            /\ d.action \in {"BUY", "SELL"} => d.regime \in {"TREND", "RANGE"}

\* C25 witness: a decision in CHOP on a frame whose EMAs are aligned upwards,
\* with MACD above its signal and RSI 50 - a BUY in TREND - and an ATR > 0.
C25_Witness ==
    /\ Called("decide")
    /\ calc.out[1].regime = "CHOP" /\ calc.out[1].action = "HOLD"
    /\ calc.in.ind.e20 > calc.in.ind.e50 /\ calc.in.ind.e50 > calc.in.ind.e200
    /\ calc.in.ind.m > calc.in.ind.s
    /\ calc.in.ind.rsi = Some(50)
    /\ calc.in.ind.atr = Some(5)

\* C26 (stop and target of a decision): stop_loss and take_profit are non-null
\* exactly when the action is BUY or SELL and the last ATR is > 0; then for
\* BUY stop = entry - k*ATR and target = entry + R*(entry - stop), for SELL
\* stop = entry + k*ATR and target = entry - R*(stop - entry), so that with
\* k, R > 0 BUY has stop < entry < target and SELL target < entry < stop;
\* with an ATR of zero or NaN a BUY or SELL is still returned, with its entry
\* and null stop and target. (k and R in tenths.)
C26_StopTarget ==
    Called("decide") =>
        LET d == calc.out[1]
            k == calc.in.eng.risk_atr_mult_sl
            R == calc.in.eng.reward_r
            atr == calc.in.ind.atr
            trade == d.action \in {"BUY", "SELL"}
            levels == trade /\ atr # None /\ atr[1] > 0
            entry == d.entry[1]
            sl == d.stop_loss[1]
            tp == d.take_profit[1]
        IN  /\ (d.stop_loss # None) = levels
            /\ (d.take_profit # None) = levels
            /\ (d.entry # None) = trade
            /\ trade => entry = calc.in.ind.close * PriceScale
            /\ (levels /\ d.action = "BUY")
                  => /\ 10 * sl = 10 * entry - k * atr[1] * PriceScale
                     /\ 10 * tp = 10 * entry + R * (entry - sl)
                     /\ sl < entry /\ entry < tp
            /\ (levels /\ d.action = "SELL")
                  => /\ 10 * sl = 10 * entry + k * atr[1] * PriceScale
                     /\ 10 * tp = 10 * entry - R * (sl - entry)
                     /\ tp < entry /\ entry < sl

\* C26 witness: a BUY at 100 with ATR 1 by the default engine: stop 98.20,
\* target 103.60.
C26_Witness ==
    /\ Called("decide")
    /\ calc.in.eng = DecisionEngine(RiskAtrMultSl, RewardR)
    /\ calc.in.ind.atr = Some(1)
    /\ calc.out[1].action = "BUY"
    /\ calc.out[1].entry = Some(10000)
    /\ calc.out[1].stop_loss = Some(9820)
    /\ calc.out[1].take_profit = Some(10360)

\* the signals of the rule table, from the indicators
C27_Bullish(ind) ==
    /\ ind.e20 > ind.e50 /\ ind.e50 > ind.e200
    /\ ind.m > ind.s /\ ind.m - ind.s > 0
    /\ ind.rsi # None /\ ind.rsi[1] > 45

C27_Bearish(ind) ==
    /\ ind.e20 < ind.e50 /\ ind.e50 < ind.e200
    /\ ind.m < ind.s /\ ind.m - ind.s < 0
    /\ ind.rsi # None /\ ind.rsi[1] < 55

C27_Oversold(ind) == ind.rsi # None /\ ind.rsi[1] < 32 /\ ind.m - ind.s > ind.h_prev

C27_Overbought(ind) == ind.rsi # None /\ ind.rsi[1] > 68 /\ ind.m - ind.s < ind.h_prev

\* C27 (decision rule table): TREND with bullish alignment, MACD and RSI > 45
\* gives BUY 0.75, with the bearish mirror (RSI < 55) SELL 0.75, otherwise
\* HOLD 0.45; RANGE with RSI < 32 and a rising histogram gives BUY 0.65,
\* with RSI > 68 and a falling histogram SELL 0.65, otherwise HOLD 0.40;
\* CHOP gives HOLD 0.20; the confidence is within [0, 1].
C27_RuleTable ==
    Called("decide") =>
        LET d == calc.out[1]
            ind == calc.in.ind
            got == <<d.action, d.confidence>>
        IN  /\ d.confidence >= 0 /\ d.confidence <= 100
            /\ d.regime = "TREND" =>
                  got = IF C27_Bullish(ind) THEN <<"BUY", 75>>
                        ELSE IF C27_Bearish(ind) THEN <<"SELL", 75>>
                        ELSE <<"HOLD", 45>>
            /\ d.regime = "RANGE" =>
                  got = IF C27_Oversold(ind) THEN <<"BUY", 65>>
                        ELSE IF C27_Overbought(ind) THEN <<"SELL", 65>>
                        ELSE <<"HOLD", 40>>
            /\ d.regime = "CHOP" => got = <<"HOLD", 20>>
            /\ d.regime \in {"TREND", "RANGE", "CHOP"}

\* C27 witness: a SELL 0.65 in RANGE on a frame whose EMAs are aligned
\* upwards: RSI 80 and the histogram falling.
C27_Witness ==
    /\ Called("decide")
    /\ calc.out[1].regime = "RANGE"
    /\ calc.out[1].action = "SELL" /\ calc.out[1].confidence = 65
    /\ calc.in.ind.e20 > calc.in.ind.e50 /\ calc.in.ind.e50 > calc.in.ind.e200
    /\ calc.in.ind.rsi = Some(80)

\* ============================================ orchestrator: adds and no-ops
\* the loop body of step run for instrument s at time now with configuration
\* c and the frame bar, on the state reached
BodyOf(c, s, bar) ==
    StepSymbol(StepState, c, s, s :> bar, now, equity(TheLedger, s :> bar.close))

LedgerKept(r) == r.cash = cash /\ r.books = books /\ r.trades = trades

\* the body opened one more leg on s: a leg on the given side at the frame's
\* price, after the legs there were, with an OPEN trade of its quantity
AddedLeg(r, s, bar) ==
    LET new == r.books[s][Len(r.books[s])]
        t == r.trades[Len(r.trades)]
    IN  /\ r.err = ""
        /\ r.books[s] = Append(books[s], new)
        /\ new.side = (IF net_qty(books[s]) > 0 THEN "long" ELSE "short")
        /\ new.entry = bar.close
        /\ r.trades = Append(trades, t)
        /\ t.symbol = s /\ t.note = "OPEN" /\ t.qty = new.qty /\ t.price = bar.close

\* PYRAMID configurations, without cooldown: legs cap 2 and 1, shorts allowed
\* or not
C28_Configs ==
    {AutoConfig(70, 75, 2, 2, "PYRAMID", TRUE, "FIXED", 50, 0),
     AutoConfig(70, 75, 2, 1, "PYRAMID", TRUE, "FIXED", 50, 0),
     AutoConfig(70, 75, 2, 2, "PYRAMID", FALSE, "FIXED", 50, 0)}

\* frames with a BUY or SELL of confidence 0.75 at price 100 with ATR 0, 10
\* and 70 and at price 50 with ATR 10 and 70, of confidence 0.70 at price 100
\* with ATR 10, and a HOLD
C28_Bars ==
    {Bar(MinAutoBars, 100, a, Decision(act, 75, 0, "TREND")) :
        a \in {0, 10, 70}, act \in {"BUY", "SELL"}}
    \cup {Bar(MinAutoBars, 50, a, Decision(act, 75, 0, "TREND")) :
             a \in {10, 70}, act \in {"BUY", "SELL"}}
    \cup {Bar(MinAutoBars, 100, 10, Decision(act, 70, 0, "TREND")) :
             act \in {"BUY", "SELL"}}
    \cup {Bar(MinAutoBars, 100, 10, Decision("HOLD", 45, 0, "TREND"))}

C28_SameDirection(s, bar) ==
    \/ net_qty(books[s]) > 0 /\ bar.d.action = "BUY"
    \/ net_qty(books[s]) < 0 /\ bar.d.action = "SELL"

C28_Opposite(s, bar) ==
    \/ net_qty(books[s]) > 0 /\ bar.d.action = "SELL"
    \/ net_qty(books[s]) < 0 /\ bar.d.action = "BUY"

\* the sizer's quantity under FIXED sizing: fixed_notional / price, in whole
\* lots
C28_SizerQty(c, price) ==
    ((c.fixed_notional * AutoLotsPerUnit) \div (price * SubLot)) * SubLot

\* the preconditions of a PYRAMID add; the average entry is total / qty
C28_Conditions(c, s, bar) ==
    LET legs == books[s]
        long == net_qty(legs) > 0
        total == avg_entry(legs)[1]
        qty == avg_entry(legs)[2]
    IN  /\ C28_SameDirection(s, bar)
        /\ Len(legs) < c.max_legs_per_asset
        /\ bar.atr > 0
        /\ IF long THEN 5 * (bar.close * qty - total) >= 4 * bar.atr * qty
                   ELSE 5 * (total - bar.close * qty) >= 4 * bar.atr * qty
        /\ bar.d.confidence >= c.conf_add
        /\ ~long => c.allow_short

\* The PYRAMID statement about the loop body of step; literal: the ledger is
\* claimed unchanged whichever condition fails.
C28_Statement(literal) ==
    \A c \in C28_Configs, s \in Symbols, bar \in C28_Bars :
        (s \in DOMAIN books /\ net_qty(books[s]) # 0) =>
            \A r \in {BodyOf(c, s, bar)} :
                /\ Len(r.books[s]) > Len(books[s])
                   => /\ C28_Conditions(c, s, bar)
                      /\ AddedLeg(r, s, bar)
                      /\ r.books[s][Len(r.books[s])].qty = C28_SizerQty(c, bar.close)
                /\ (~C28_Conditions(c, s, bar) /\ (literal \/ ~C28_Opposite(s, bar)))
                   => LedgerKept(r)

C29_Configs ==
    {AutoConfig(60, 65, 2, 2, "MEANREV", TRUE, "FIXED", 50, 0),
     AutoConfig(60, 65, 2, 1, "MEANREV", TRUE, "FIXED", 50, 0),
     AutoConfig(60, 65, 2, 2, "MEANREV", FALSE, "FIXED", 50, 0)}

\* frames at either price with a BUY or SELL in RANGE of confidence 0.65 and
\* 0.60, in TREND of confidence 0.75, and a HOLD in CHOP
C29_Bars ==
    {Bar(MinAutoBars, p, 10, Decision(act, conf, 0, "RANGE")) :
        p \in {50, 100}, act \in {"BUY", "SELL"}, conf \in {60, 65}}
    \cup {Bar(MinAutoBars, 50, 10, Decision(act, 75, 0, "TREND")) : act \in {"BUY", "SELL"}}
    \cup {Bar(MinAutoBars, 50, 10, Decision("HOLD", 20, 0, "CHOP"))}

\* C29 (MEANREV add preconditions): with add mode MEANREV step opens an
\* additional leg on an open position only if the decision's regime is RANGE,
\* the leg count is below max_legs_per_asset, the decision is in the
\* position's direction with confidence >= conf_add, and shorting is allowed
\* for a short; the leg's quantity is 60% of the quantity the sizer returns
\* (here fixed_notional / price); in TREND or CHOP no add is made.
C29_MeanrevAdd ==
    \A c \in C29_Configs, s \in Symbols, bar \in C29_Bars :
        (s \in DOMAIN books /\ net_qty(books[s]) # 0) =>
            \A r \in {BodyOf(c, s, bar)} :
            LET added == Len(r.books[s]) > Len(books[s])
            IN  /\ added
                   => /\ bar.d.regime = "RANGE"
                      /\ Len(books[s]) < c.max_legs_per_asset
                      /\ C28_SameDirection(s, bar)
                      /\ bar.d.confidence >= c.conf_add
                      /\ net_qty(books[s]) < 0 => c.allow_short
                      /\ AddedLeg(r, s, bar)
                      /\ 5 * r.books[s][Len(r.books[s])].qty
                            = 3 * C28_SizerQty(c, bar.close)
                /\ bar.d.regime \in {"TREND", "CHOP"}
                   => /\ ~added
                      /\ \A k \in (Len(trades) + 1)..Len(r.trades) : r.trades[k].note # "OPEN"

\* C29 witness: the last tick returned having added a leg to a position under
\* MEANREV: the position's side, 0.6 at price 50.
C29_Witness ==
    /\ ret.op = "step" /\ ret.err = "" /\ auto_cfg.add_mode = "MEANREV"
    /\ \E i \in 1..Len(ret.logs) :
          LET s == ret.logs[i].symbol IN
          /\ ret.logs[i].text \in {"MEANREV ADD LONG", "MEANREV ADD SHORT"}
          /\ Len(books[s]) = 2
          /\ books[s][2].side = books[s][1].side
          /\ books[s][2].entry = 50
          /\ 5 * books[s][2].qty = 3 * AutoLotsPerUnit

\* configurations of each add mode, with and without cooldown
C30_Configs ==
    {AutoConfig(70, 75, 2, 2, "OFF", TRUE, "FIXED", 50, 0),
     AutoConfig(70, 75, 2, 2, "PYRAMID", TRUE, "FIXED", 50, 0),
     AutoConfig(60, 65, 2, 2, "MEANREV", TRUE, "FIXED", 50, 2)}

BodyAt(c, s, bar, n) ==
    StepSymbol([StepState EXCEPT !.open_assets = n], c, s, s :> bar, now,
               equity(TheLedger, s :> bar.close))

NoShortLegs(bks) ==
    \A s \in DOMAIN bks : \A i \in 1..Len(bks[s]) : bks[s][i].side = "long"

\* configurations with shorts allowed and not, caps of 2 and 1 instruments,
\* each add mode, without cooldown
C31_Configs ==
    {AutoConfig(70, 75, 2, 2, "PYRAMID", TRUE, "FIXED", 50, 0),
     AutoConfig(70, 75, 1, 2, "PYRAMID", FALSE, "FIXED", 50, 0),
     AutoConfig(70, 65, 2, 2, "MEANREV", FALSE, "FIXED", 50, 0)}

\* C31 (entry gating when flat): step opens a first leg on a flat instrument
\* only if the decision is BUY or SELL with confidence >= conf_entry and the
\* count of open instruments is below max_open_assets; BUY opens a long, SELL
\* a short and only if allow_short; so with allow_short false no book of a
\* ledger without short legs gets a negative net quantity, by any step.
C31_EntryGating ==
    /\ \A c \in C31_Configs, s \in Symbols, bar \in Bars :
         \A n \in {position_count(books), position_count(books) + 1} :
           net_qty(LegsOf(books, s)) = 0 =>
             \A r \in {BodyAt(c, s, bar, n)} :
               Len(LegsOf(r.books, s)) > Len(LegsOf(books, s))
                 => /\ bar.d.action \in {"BUY", "SELL"}
                    /\ bar.d.confidence >= c.conf_entry
                    /\ n < c.max_open_assets
                    /\ Len(r.books[s]) = 1
                    /\ bar.d.action = "BUY" => r.books[s][1].side = "long"
                    /\ bar.d.action = "SELL"
                          => r.books[s][1].side = "short" /\ c.allow_short
    /\ ~auto_cfg.allow_short => \A s \in DOMAIN books : net_qty(books[s]) >= 0
    /\ NoShortLegs(books) =>
         \A c \in {x \in C31_Configs : ~x.allow_short}, s \in Symbols, bar \in Bars :
             \A r \in {BodyOf(c, s, bar)} :
                 /\ NoShortLegs(r.books)
                 /\ \A x \in DOMAIN r.books : net_qty(r.books[x]) >= 0

\* C31 witness: the last tick returned having entered an instrument short on
\* a SELL, with shorts allowed and the cap not reached; another instrument is
\* flat, and on a SELL of confidence 0.75 the loop body enters it short, but
\* opens nothing with allow_short false, and nothing at confidence 0.65.
C31_Witness ==
    /\ ret.op = "step" /\ ret.err = "" /\ auto_cfg.allow_short
    /\ auto_cfg.conf_entry = 70
    /\ position_count(books) < auto_cfg.max_open_assets
    /\ \E i \in 1..Len(ret.logs) :
          /\ ret.logs[i].text = "ENTRY SHORT"
          /\ Len(books[ret.logs[i].symbol]) = 1
          /\ books[ret.logs[i].symbol][1].side = "short"
    /\ \E s \in Symbols :
          /\ net_qty(LegsOf(books, s)) = 0
          /\ \A r \in {BodyOf(auto_cfg, s, Bar(MinAutoBars, 50, 10, TrendDecision("SELL")))} :
                r.err = "" /\ Len(r.books[s]) = 1 /\ r.books[s][1].side = "short"
          /\ LedgerKept(BodyOf([auto_cfg EXCEPT !.allow_short = FALSE], s,
                               Bar(MinAutoBars, 50, 10, TrendDecision("SELL"))))
          /\ LedgerKept(BodyOf(auto_cfg, s, Bar(MinAutoBars, 50, 10, RangeDecision("SELL"))))

\* configurations of either add mode with a cap of 1 and of 2 legs
C32_Configs ==
    {AutoConfig(70, 75, 2, k, "PYRAMID", TRUE, "FIXED", 50, 0) : k \in 1..2}
    \cup {AutoConfig(60, 65, 2, k, "MEANREV", TRUE, "FIXED", 50, 0) : k \in 1..2}

\* C32 (legs-per-instrument cap): from an empty ledger, with
\* max_legs_per_asset >= 1 held constant, after any sequence of steps every
\* book holds at most max_legs_per_asset legs; and the loop body never adds a
\* leg to a book whose leg count has reached the cap.
C32_LegsCap ==
    /\ \A s \in DOMAIN books : Len(books[s]) <= auto_cfg.max_legs_per_asset
    /\ \A c \in C32_Configs, s \in DOMAIN books, bar \in Bars :
          (net_qty(books[s]) # 0 /\ Len(books[s]) >= c.max_legs_per_asset)
              => \A r \in {BodyOf(c, s, bar)} : Len(r.books[s]) <= Len(books[s])

\* C32 witness: the last tick returned having added a leg, the book now holds
\* max_legs_per_asset legs, and on the frame that made the add (MEANREV: a
\* BUY in RANGE of confidence 0.65) the loop body adds nothing more.
C32_Witness ==
    /\ ret.op = "step" /\ ret.err = "" /\ auto_cfg.add_mode = "MEANREV"
    /\ \E i \in 1..Len(ret.logs) :
          LET s == ret.logs[i].symbol IN
          /\ ret.logs[i].text = "MEANREV ADD LONG"
          /\ Len(books[s]) = auto_cfg.max_legs_per_asset
          /\ auto_cfg.conf_add <= 65
          /\ LedgerKept(BodyOf(auto_cfg, s, Bar(MinAutoBars, 50, 10, RangeDecision("BUY"))))

\* =================================================== the orchestrator's sizer
\* C33 (AutoManager._compute_qty), as claimed: the result is
\* max(fixed_notional, 0) / price when the size mode is FIXED or stop_loss is
\* null or equal to price, otherwise
\* max(equity * risk_per_trade_pct, 0) / |price - stop_loss|; it is 0 whenever
\* price <= 0, for every size mode and stop_loss; it is never negative.
C33_ComputeQty ==
    Called("compute_qty") =>
        LET i == calc.in
            q == calc.out[1]
            fixed == IF i.cfg.fixed_notional > 0 THEN i.cfg.fixed_notional ELSE 0
            risk == IF i.equity * i.cfg.risk_num > 0 THEN i.equity * i.cfg.risk_num ELSE 0
            as_fixed == \/ i.cfg.size_mode = "FIXED"
                        \/ i.sl = None \/ i.sl = Some(i.price)
        IN  /\ q[2] > 0
            /\ i.price <= 0 => q[1] = 0
            /\ (i.price > 0 /\ as_fixed) => q[1] * i.price = fixed * q[2]
            /\ (i.price > 0 /\ ~as_fixed)
                  => q[1] * i.cfg.risk_den * Abs(i.price - i.sl[1]) = risk * q[2]
            /\ q[1] >= 0

\* ============================================================ the read paths
ReadOps ==
    {"check_limits", "exposure_pct", "positions", "net_qty", "avg_entry", "equity",
     "unrealized_pnl", "total_fees", "realized_pnl"}

\* C34 (read paths do not mutate the ledger), as claimed: check_limits,
\* exposure_pct, positions, net_qty, avg_entry, equity, unrealized_pnl,
\* total_fees and realized_pnl leave cash, the trade list, the set of
\* instruments in the book mapping and every book's legs as they were, also
\* for an instrument the ledger has never seen.
C34_ReadOnly ==
    [][ret'.op \in ReadOps =>
          /\ cash' = cash /\ trades' = trades
          /\ DOMAIN books' = DOMAIN books
          /\ \A s \in DOMAIN books : books'[s] = books[s]
    ]_vars

\* ====================================================== ledger: cash, equity
\* C35 (cash never goes negative): from a starting cash >= 0, with prices
\* >= 0 and the fee rate in [0, 1], after any sequence of open_leg and
\* close_qty_fifo calls, failed ones included, the cash is >= 0.
C35_CashNonNegative == cash >= 0

\* C35 witness: a cover of a short has just been refused for lack of cash,
\* after two trades: the cash is below the cost of the cover and not negative.
C35_Witness ==
    /\ ret.op = "close_qty_fifo" /\ ret.err = ErrCashShort
    /\ Len(trades) >= 2
    /\ cash >= 0
    /\ cash < CostOf(Min(ret.qty, Abs(net_qty(books[ret.symbol]))), ret.price)

\* every book's legs are on one side
SingleSide(bks) ==
    \A s \in DOMAIN bks : \A i, j \in 1..Len(bks[s]) : bks[s][i].side = bks[s][j].side

\* the price maps covering every instrument that has a position
C36_PriceMaps ==
    UNION {[S -> {500, 1600, 2400}] :
             S \in {T \in SUBSET Symbols :
                      \A s \in DOMAIN books : net_qty(books[s]) # 0 => s \in T}}

\* the sum of two quotients
RatSum(a, b) == <<a[1] * b[2] + b[1] * a[2], a[2] * b[2]>>

\* the sum of unrealized_pnl(s, prices[s]) over the instruments priced
RECURSIVE C36_Unrealized(_, _)
C36_Unrealized(prices, todo) ==
    IF todo = {} THEN <<0, 1>>
    ELSE LET s == CHOOSE x \in todo : TRUE
         IN  RatSum(unrealized_pnl(TheLedger, s, prices[s]),
                    C36_Unrealized(prices, todo \ {s}))

\* C36 (accounting identity): in every ledger state reached by open_leg and
\* close_qty_fifo in which each book's legs are on one side, and for any
\* price map covering the instruments with a position, equity(prices) =
\* starting cash + realized_pnl() + the sum of unrealized_pnl(s, price); when
\* every book is empty, cash = starting cash + the realized PnL of all trades,
\* the last point of the equity curve built from the trades.
C36_AccountingIdentity ==
    /\ SingleSide(books) =>
         \A prices \in C36_PriceMaps :
            \A u \in {C36_Unrealized(prices, DOMAIN prices)} :
               (equity(TheLedger, prices) - InitialCash - realized_pnl(TheLedger)) * u[2]
                   = u[1]
    /\ (\A s \in DOMAIN books : books[s] = <<>>) =>
         \A curve \in {equity_curve_from_trades(trades, InitialCash)} :
            /\ cash = InitialCash + realized_pnl(TheLedger)
            /\ cash = curve[Len(curve)]

\* C36 witness: one instrument has been bought and sold back in full, its
\* book is empty, and another is held short, at a loss when marked at 2400.
C36_Witness ==
    /\ SingleSide(books)
    /\ \E a, b \in DOMAIN books :
          /\ books[a] = <<>>
          /\ \E k \in 1..Len(trades) : trades[k].symbol = a /\ trades[k].note = "CLOSE"
          /\ net_qty(books[b]) < 0
          /\ unrealized_pnl(TheLedger, b, 2400)[1] < 0
          /\ realized_pnl(TheLedger) # 0

\* ============================================== orchestrator: one-sided books
\* C37 (single-side books under the orchestrator): from an empty ledger
\* changed only by step, in every reachable state the legs of each book are
\* all on one side, and an instrument whose net quantity is zero - the only
\* one an entry is made on - has no leg.
C37_SingleSideBooks ==
    /\ SingleSide(books)
    /\ \A s \in DOMAIN books : net_qty(books[s]) = 0 => books[s] = <<>>

\* C37 witness: the last tick returned having added a second short leg to a
\* short position, and the trades made are two sells.
C37_Witness ==
    /\ ret.op = "step" /\ ret.err = ""
    /\ \E i \in 1..Len(ret.logs) :
          LET s == ret.logs[i].symbol IN
          /\ ret.logs[i].text \in {"PYRAMID ADD SHORT", "MEANREV ADD SHORT"}
          /\ Len(books[s]) = 2
          /\ books[s][1].side = "short" /\ books[s][2].side = "short"
          /\ \A k \in 1..Len(trades) : trades[k].symbol = s => trades[k].side = "sell"

\* ================================= orchestrator: the default thresholds
\* what decide can return: the action, the confidence and the regime
C38_Outcomes ==
    {<<"BUY", 75, "TREND">>, <<"SELL", 75, "TREND">>, <<"HOLD", 45, "TREND">>,
     <<"BUY", 65, "RANGE">>, <<"SELL", 65, "RANGE">>, <<"HOLD", 40, "RANGE">>,
     <<"HOLD", 20, "CHOP">>}

\* C38 (the default thresholds make adds unreachable): decide returns
\* confidence 0.75 with a BUY or SELL in TREND, 0.65 with one in RANGE, and
\* less with a HOLD; so with the default AutoConfig (conf_entry 0.70, conf_add
\* 0.80), in PYRAMID or MEANREV mode, the loop body of step opens a leg only
\* as an entry on a flat instrument on a TREND decision - never an add, never
\* an entry on a RANGE decision - and from the empty ledger every book holds
\* at most one leg.
C38_DefaultNoAdds ==
    /\ trades = <<>> =>
          \A call \in DecideCalls :
              \A td \in {decide(call.in.eng, call.in.ind)} :
                  <<td.action, td.confidence, td.regime>> \in C38_Outcomes
    /\ \A s \in Symbols, o \in C38_Outcomes, p \in {50, 100}, a \in {0, 10} :
          \A dt \in {0, DefaultCooldown} :
             \A r \in {StepSymbol(StepState, auto_cfg, s,
                                  s :> Bar(MinAutoBars, p, a, Decision(o[1], o[2], 0, o[3])),
                                  now + dt, equity(TheLedger, s :> p))} :
                Len(LegsOf(r.books, s)) > Len(LegsOf(books, s))
                    => /\ net_qty(LegsOf(books, s)) = 0
                       /\ o[3] = "TREND" /\ o[2] = 75
    /\ \A s \in DOMAIN books : Len(books[s]) <= 1

\* C38 witness: under the default PYRAMID configuration an instrument entered
\* long at 50 a cooldown ago is held with one leg; on a confirmed up trend at
\* 100 (confidence 0.75, the price 5 ATR above the entry) the loop body adds
\* nothing, and would add a leg if conf_add were 0.75.
C38_Witness ==
    /\ ret.op = "step" /\ ret.err = "" /\ auto_cfg.add_mode = "PYRAMID"
    /\ auto_cfg.conf_add = 80
    /\ \E s \in DOMAIN books :
          /\ Len(books[s]) = 1 /\ books[s][1].side = "long" /\ books[s][1].entry = 50
          /\ now - last_trade_time[s] >= auto_cfg.cooldown_sec
          /\ \A bar \in {FrameBar(MinAutoBars,
                                  Indicators(110, 100, 90, 20, Some(10), 1, 0, 0, Some(50), 100))} :
                /\ bar.d.action = "BUY" /\ bar.d.confidence = 75
                /\ LedgerKept(BodyOf(auto_cfg, s, bar))
                /\ Len(BodyOf([auto_cfg EXCEPT !.conf_add = 75], s, bar).books[s]) = 2

\* the markers of a list that a refresh brought, in the order of the list
OfRefreshes(markers, o) ==
    SelectSeq(markers, LAMBDA m : \E k \in 1..Len(o.published) :
                                     \E j \in 1..Len(o.published[k].markers) :
                                        o.published[k].markers[j] = m)

\* the snapshot holds the frame and the markers of one refresh; markers the
\* feed thread pushed are not counted, and a snapshot with nothing of a
\* refresh in it is not judged
OfOneRefresh(snap, o) ==
    (\/ \E k \in 1..Len(o.published) : o.published[k].df = snap.df.val
     \/ OfRefreshes(snap.markers.val, o) # <<>>)
        => \E k \in 1..Len(o.published) :
              /\ snap.df.val = Published(o.published[k]).df
              /\ OfRefreshes(snap.markers.val, o) = Published(o.published[k]).markers

\* C39: while the UI thread publishes refreshes as push_frame; clear_markers;
\* extend_markers and the feed thread calls push_frame / push_marker, every
\* snapshot returns a frame and a marker list that belong to the same
\* refresh: never the new frame with the markers of the refresh before, or
\* with an empty list when the refresh has markers.
C39_RefreshConsistency ==
    \A k \in 1..Len(obs.snaps) : OfOneRefresh(obs.snaps[k], obs)

====
